---------------------------- MODULE Spec2Model ----------------------------
(***************************************************************************)
(* Model of the hypster configuration engine (src/src/hypster/core.py):    *)
(* the HP resolution context (select, text_input, number_input,            *)
(* propagate) and the Hypster invocation that runs a configuration body    *)
(* against it, and of the name analyzer (src/src/hypster/ast_analyzer.py)  *)
(* that infers and injects the names of the hp.select calls of a source.   *)
(* The last sections model the search objective and the fit methods of     *)
(* src/hypster.py: the patience of Objective.__call__ and the filter of    *)
(* the estimators in HyPSTERClassifier.fit and HyPSTERRegressor.fit.       *)
(*                                                                         *)
(* Python values are tagged tuples <<type, payload>>; dict keys, variable  *)
(* names and dotted paths are sequences of one-character strings, so that  *)
(* str.startswith and slicing are modelled character by character.         *)
(***************************************************************************)
EXTENDS Integers, Sequences, FiniteSets, TLC

VARIABLES
    stack,      \* the running invocations, innermost last
    last,       \* the primitive call executed last, with its outcome
    status,     \* "running", "returned" or "failed": the top-level invocation
    result,     \* what the top-level invocation returned or raised
    nstmts,     \* statements executed so far by the invocation
    source,     \* Hypster.source_code: the statements of the configuration
    selects,    \* the Select entries the analyzer made of source
    modified_source,    \* the source after inject_names, which is executed
    \* several invocations of Hypster.__call__ at once
    heap,       \* the dict and list objects, by identity
    threads,    \* the invocations: their locals, as references into heap
    \* Objective.__call__ (src/hypster.py)
    objective,  \* self: tol, max_iter, max_fails, greater_is_better
    can_lower_complexity,
    step,       \* iterations of the loop begun so far
    best_score,
    fail_count,
    improved,   \* the value of "condition" in every iteration so far
    loop,       \* "iterating", "broke", "exhausted" or "pruned"
    \* HyPSTERClassifier.fit and HyPSTERRegressor.fit (src/hypster.py)
    fit,        \* the estimator kind, the data, and where fit is
    estimators, \* self.estimators, by their tags
    n_trials_per_estimator, \* the caller's list, or an int
    given,      \* n_trials_per_estimator as it was when fit was called
    valid_estimators,
    index,      \* the loop variable i
    optimized   \* the calls of study.optimize made: estimator and n_trials

hypster_vars == <<stack, last, status, result, nstmts, source, selects, modified_source>>
threads_vars == <<heap, threads>>
objective_vars ==
    <<objective, can_lower_complexity, step, best_score, fail_count, improved, loop>>
fit_vars ==
    <<fit, estimators, n_trials_per_estimator, given, valid_estimators, index, optimized>>

other_vars == <<threads_vars, objective_vars, fit_vars>>

vars == <<hypster_vars, other_vars>>

\* the configuration body is not given as source text: its statements are
\* the steps the specification takes
NoSource == source = <<>> /\ selects = <<>> /\ modified_source = <<>>

\* one invocation only
NoThreads == heap = <<>> /\ threads = <<>>

\* no Objective is called
NoObjective ==
    /\ objective = <<>> /\ can_lower_complexity = FALSE /\ step = 0
    /\ best_score = <<>> /\ fail_count = 0 /\ improved = <<>> /\ loop = "none"

\* no estimator is fitted
NoFit ==
    /\ fit = <<>> /\ estimators = <<>> /\ n_trials_per_estimator = <<>>
    /\ given = <<>> /\ valid_estimators = <<>> /\ index = 0 /\ optimized = <<>>

\* the configuration engine by itself
EngineOnly == NoThreads /\ NoObjective /\ NoFit

-----------------------------------------------------------------------------
(* Python values *)

PyNone == <<"NoneType">>
PyStr(s) == <<"str", s>>
PyInt(n) == <<"int", n>>
PyBool(n) == <<"bool", n>>
PyList(elems) == <<"list", elems>>
PyTuple(elems) == <<"tuple", elems>>
PyDict(items) == <<"dict", items>>
PyMap(f) == <<"mapping", f>>

TypeOf(v) == v[1]

\* int, bool and float compare and hash by numeric value (True == 1 == 1.0)
IsNumeric(v) == TypeOf(v) \in {"int", "bool", "float"}

PyEq(u, v) ==
    IF IsNumeric(u) /\ IsNumeric(v)
    THEN u[2] = v[2]
    ELSE TypeOf(u) = TypeOf(v) /\ u = v

\* hash(v) raises TypeError for list and dict values
Hashable(v) == TypeOf(v) \notin {"list", "dict", "mapping"}

\* isinstance(v, (str, int, bool, float))
IsScalar(v) == TypeOf(v) \in {"str", "int", "bool", "float"}

-----------------------------------------------------------------------------
(* An options dict is a sequence of <<key, value>> items in insertion      *)
(* order; its keys are pairwise unequal under PyEq.                        *)

DictHas(items, k) == \E i \in DOMAIN items : PyEq(items[i][1], k)

DictGet(items, k) == items[CHOOSE i \in DOMAIN items : PyEq(items[i][1], k)][2]

DictKeys(items) == [i \in DOMAIN items |-> items[i][1]]

DictValues(items) == {items[i][2] : i \in DOMAIN items}

\* d[k] = v: an equal key keeps its place and its first spelling
DictSetItem(items, k, v) ==
    IF DictHas(items, k)
    THEN [i \in DOMAIN items |->
            IF PyEq(items[i][1], k) THEN <<items[i][1], v>> ELSE items[i]]
    ELSE Append(items, <<k, v>>)

RECURSIVE SelfMapped(_, _)
\* {v: v for v in options}
SelfMapped(elems, n) ==
    IF n = 0 THEN <<>>
    ELSE DictSetItem(SelfMapped(elems, n - 1), elems[n], elems[n])

-----------------------------------------------------------------------------
(* Context dicts (selections, overrides, config_dict, namespace) are       *)
(* functions from names to values.                                         *)

EmptyDict == <<>>

Put(f, k, v) == [x \in (DOMAIN f) \cup {k} |-> IF x = k THEN v ELSE f[x]]

\* name=None
NoName == <<"None">>

Return(v) == <<"return", v>>
Raise(type, msg, args) == <<"raise", type, msg, args>>

Returned(out) == out[1] = "return"
Raised(out) == out[1] = "raise"

-----------------------------------------------------------------------------
(* HP.__init__ *)

HP(final_vars, selections, overrides) ==
    [final_vars |-> final_vars,
     selections |-> selections,
     overrides |-> overrides,
     config_dict |-> EmptyDict]

\* core.py 25-34: the options table select works on, or the error it raises
CanonicalOptions(options) ==
    IF TypeOf(options) = "dict"
    THEN IF \A i \in DOMAIN options[2] : TypeOf(options[2][i][1]) = "str"
         THEN Return(options[2])
         ELSE Raise("ValueError", "Dictionary keys must be strings",
                    SelectSeq(DictKeys(options[2]), LAMBDA k : TypeOf(k) # "str"))
    ELSE IF TypeOf(options) = "list"
    THEN IF \A i \in DOMAIN options[2] : IsScalar(options[2][i])
         THEN Return(SelfMapped(options[2], Len(options[2])))
         ELSE Raise("ValueError", "List values must be one of: str, int, bool, float", <<>>)
    ELSE Raise("ValueError", "Options must be a dictionary or a list", <<>>)

\* core.py 43-48: the override branch; "override_value in options" hashes it
ByOverride(table, override_value) ==
    IF ~Hashable(override_value)
    THEN Raise("TypeError", "unhashable type", <<override_value>>)
    ELSE IF DictHas(table, override_value)
    THEN Return(DictGet(table, override_value))
    ELSE Return(override_value)

BySelection_PassThrough(table, selected_value, name) ==
    IF ~Hashable(selected_value)
    THEN Raise("TypeError", "unhashable type", <<selected_value>>)
    ELSE IF DictHas(table, selected_value)
    THEN Return(DictGet(table, selected_value))
    ELSE Return(selected_value)

\* core.py 51-59: the selection branch
BySelection(table, selected_value, name) ==
    IF ~Hashable(selected_value)
    THEN Raise("TypeError", "unhashable type", <<selected_value>>)
    ELSE IF DictHas(table, selected_value)
    THEN Return(DictGet(table, selected_value))
    ELSE Raise("InvalidSelectionError", "Invalid selection",
               <<selected_value, name, DictKeys(table)>>)

ByDefault_ResultNone(table, name, default) ==
    IF default # PyNone
    THEN Return(DictGet(table, default))
    ELSE Return(PyNone)

\* core.py 60-63: the default branch and the final raise
ByDefault(table, name, default) ==
    IF default # PyNone
    THEN Return(DictGet(table, default))
    ELSE Raise("ValueError", "No selection or override found", <<name>>)

Resolve_SelectionFirst(hp, table, name, default) ==
    IF name \in DOMAIN hp.selections
    THEN BySelection(table, hp.selections[name], name)
    ELSE IF name \in DOMAIN hp.overrides
    THEN ByOverride(table, hp.overrides[name])
    ELSE ByDefault(table, name, default)

\* core.py 41-63: the precedence chain over a canonical options table
Resolve(hp, table, name, default) ==
    IF name \in DOMAIN hp.overrides
    THEN ByOverride(table, hp.overrides[name])
    ELSE IF name \in DOMAIN hp.selections
    THEN BySelection(table, hp.selections[name], name)
    ELSE ByDefault(table, name, default)

\* core.py 36-37: "default not in options" hashes the default
DefaultCheck(table, default) ==
    IF default = PyNone THEN Return(PyNone)
    ELSE IF ~Hashable(default)
    THEN Raise("TypeError", "unhashable type", <<default>>)
    ELSE IF ~DictHas(table, default)
    THEN Raise("ValueError", "Default value must be one of the options", <<>>)
    ELSE Return(PyNone)

SelectOutcome_DeferredDefault(hp, options, name, default) ==
    IF name = NoName
    THEN Raise("ValueError", "Name must be provided", <<>>)
    ELSE LET canon == CanonicalOptions(options) IN
         IF Raised(canon) THEN canon
         ELSE IF name \in DOMAIN hp.overrides \/ name \in DOMAIN hp.selections
         THEN Resolve(hp, canon[2], name, default)
         ELSE IF Raised(DefaultCheck(canon[2], default))
         THEN DefaultCheck(canon[2], default)
         ELSE Resolve(hp, canon[2], name, default)

\* core.py 21-66: what HP.select returns or raises
SelectOutcome(hp, options, name, default) ==
    IF name = NoName
    THEN Raise("ValueError", "Name must be provided", <<>>)
    ELSE LET canon == CanonicalOptions(options) IN
         IF Raised(canon) THEN canon
         ELSE IF Raised(DefaultCheck(canon[2], default))
         THEN DefaultCheck(canon[2], default)
         ELSE Resolve(hp, canon[2], name, default)

Record_OnRaise(hp, name, out) ==
    [hp EXCEPT !.config_dict = Put(@, name, IF Returned(out) THEN out[2] ELSE PyNone)]

\* core.py 65: self.config_dict[name] = result, reached only without a raise
Record(hp, name, out) ==
    IF Returned(out)
    THEN [hp EXCEPT !.config_dict = Put(@, name, out[2])]
    ELSE hp

\* core.py 68-84
TextInputOutcome(hp, default, name) ==
    IF name = NoName
    THEN Raise("ValueError", "Name must be provided", <<>>)
    ELSE IF name \in DOMAIN hp.overrides
    THEN Return(hp.overrides[name])
    ELSE IF default = PyNone
    THEN Raise("ValueError", "No default value or override provided for text input", <<name>>)
    ELSE Return(default)

\* core.py 86-102
NumberInputOutcome(hp, default, name) ==
    IF name = NoName
    THEN Raise("ValueError", "Name must be provided", <<>>)
    ELSE IF name \in DOMAIN hp.overrides
    THEN Return(hp.overrides[name])
    ELSE IF default = PyNone
    THEN Raise("ValueError", "No default value or override provided for number input", <<name>>)
    ELSE Return(default)

-----------------------------------------------------------------------------
(* HP.propagate *)

\* k.startswith(p)
StartsWith(k, p) == Len(k) >= Len(p) /\ SubSeq(k, 1, Len(p)) = p

\* k[n:]
SliceFrom(k, n) == SubSeq(k, n + 1, Len(k))

\* f"{name}."
Dotted(name) == name \o <<".">>

NestedDict_NoDot(d, name) ==
    LET passed == {k \in DOMAIN d : StartsWith(k, name)} IN
    [kk \in {SliceFrom(k, Len(name) + 1) : k \in passed} |->
        d[CHOOSE k \in passed : SliceFrom(k, Len(name) + 1) = kk]]

NestedDict_AnyScope(d, name) ==
    LET passed == {k \in DOMAIN d : \E i \in DOMAIN k : k[i] = "."} IN
    [kk \in {SliceFrom(k, Len(name) + 1) : k \in passed} |->
        d[CHOOSE k \in passed : SliceFrom(k, Len(name) + 1) = kk]]

\* core.py 108-109:
\* {k[len(name)+1:]: v for k, v in d.items() if k.startswith(f"{name}.")}
NestedDict(d, name) ==
    LET passed == {k \in DOMAIN d : StartsWith(k, Dotted(name))} IN
    [kk \in {SliceFrom(k, Len(name) + 1) : k \in passed} |->
        d[CHOOSE k \in passed : SliceFrom(k, Len(name) + 1) = kk]]

\* core.py 112: [var[len(name)+1:] for var in final_vars if var.startswith(f"{name}.")]
NestedList(final_vars, name) ==
    LET passed == SelectSeq(final_vars, LAMBDA var : StartsWith(var, Dotted(name))) IN
    [i \in DOMAIN passed |-> SliceFrom(passed[i], Len(name) + 1)]

\* core.py 108-115: the context Hypster.__call__ builds for the nested call
NestedHP(hp, name) ==
    HP(NestedList(hp.final_vars, name),
       NestedDict(hp.selections, name),
       NestedDict(hp.overrides, name))

-----------------------------------------------------------------------------
(* Hypster.__call__: the namespace of the executed body and its result *)

HpVar == <<"h", "p">>
HpObject == <<"HP">>

\* isinstance(v, (types.ModuleType, types.FunctionType, type))
IsScaffold(v) == TypeOf(v) \in {"module", "function", "type"}

\* core.py 170-181
ProcessResults(namespace) ==
    LET filtered_locals ==
            {k \in DOMAIN namespace :
                /\ k # HpVar
                /\ ~StartsWith(k, <<"_", "_">>)
                /\ ~IsScaffold(namespace[k])}
        final_result == {k \in filtered_locals : ~StartsWith(k, <<"_">>)}
    IN  [k \in final_result |-> namespace[k]]

FinalResult_SkipMissing(namespace, final_vars) ==
    LET final_result == ProcessResults(namespace) IN
    IF final_vars = <<>>
    THEN PyMap(final_result)
    ELSE PyMap([k \in {final_vars[i] : i \in DOMAIN final_vars} \cap DOMAIN final_result |->
                  final_result[k]])

\* core.py 147-154: the mapping the invocation returns
FinalResult(namespace, final_vars) ==
    LET final_result == ProcessResults(namespace) IN
    IF final_vars = <<>>
    THEN PyMap(final_result)
    ELSE PyMap([k \in {final_vars[i] : i \in DOMAIN final_vars} |->
                  IF k \in DOMAIN final_result THEN final_result[k] ELSE PyNone])

-----------------------------------------------------------------------------
(* Value universes *)

a == PyStr("a")
b == PyStr("b")
c == PyStr("c")
one == PyInt(1)
true == PyBool(1)
false == PyBool(0)
five_list == PyList(<<PyInt(5)>>)

nx == <<"x">>
ny == <<"y">>

\* values a caller puts in selections (Dict[str, Any])
SelectionValues == {a, c, one, five_list}
\* values a caller puts in overrides (Dict[str, Any])
OverrideValues == {a, c, true, five_list}
Defaults == {PyNone, a, c, one, five_list}

\* every list of at most two hashable scalars, and lists with a list inside
ListElems == {a, one, true}

ListOptions ==
    {PyList(<<>>)} \cup {PyList(<<u>>) : u \in ListElems}
        \cup {PyList(<<u, v>>) : u \in ListElems, v \in ListElems}
        \cup {PyList(<<five_list>>), PyList(<<a, five_list>>)}

DictOptions ==
    {PyDict(<<<<a, b>>, <<b, five_list>>>>),
     PyDict(<<<<a, a>>>>),
     PyDict(<<<<one, a>>>>),
     PyDict(<<<<a, a>>, <<one, b>>>>)}

OtherOptions == {PyTuple(<<a, b>>), PyStr("ab")}

OptionsUniverse == ListOptions \cup DictOptions \cup OtherOptions

\* the argument triples <<options, name, default>> of the select calls made
SelectArgs ==
    (OptionsUniverse \X {nx} \X Defaults)
        \cup ({PyList(<<a>>)} \X {NoName} \X {PyNone, a})

\* the argument pairs <<default, name>> of the text_input and number_input calls
InputArgs ==
    ({PyNone, a} \X {nx, ny}) \cup ({a} \X {NoName})

DictsOver(keys, values) ==
    UNION {[ks -> values] : ks \in SUBSET keys}

-----------------------------------------------------------------------------
(* The state: the stack of running invocations, innermost last.  A frame   *)
(* holds the invocation's HP context, the name it was propagated under,    *)
(* and the namespace of the executing body.                                *)

Frame(hp, pname) ==
    [hp |-> hp, pname |-> pname, namespace |-> [k \in {HpVar} |-> HpObject]]

NoCall == [op |-> "none", options |-> PyNone, name |-> NoName,
           default |-> PyNone, out |-> Return(PyNone)]

Call(op, options, name, default, out) ==
    [op |-> op, options |-> options, name |-> name, default |-> default, out |-> out]

Top == stack[Len(stack)]

-----------------------------------------------------------------------------
(* The HP object driven method by method: a caller builds one context and  *)
(* calls its primitives; a call that raises leaves the object usable.      *)

InitHP ==
    /\ EngineOnly
    /\ \E selections \in DictsOver({nx}, SelectionValues),
          overrides \in DictsOver({nx}, OverrideValues) :
          stack = <<Frame(HP(<<>>, selections, overrides), NoName)>>
    /\ last = NoCall
    /\ status = "running"
    /\ result = PyNone
    /\ nstmts = 0
    /\ NoSource

SelectCall ==
    \E args \in SelectArgs :
        LET options == args[1]
            name == args[2]
            default == args[3]
            out == SelectOutcome(Top.hp, options, name, default) IN
        /\ stack' = [stack EXCEPT ![Len(stack)].hp = Record(@, name, out)]
        /\ last' = Call("select", options, name, default, out)
        /\ UNCHANGED <<status, result, nstmts, source, selects, modified_source, other_vars>>

TextInputCall ==
    \E args \in InputArgs :
        LET default == args[1]
            name == args[2]
            out == TextInputOutcome(Top.hp, default, name) IN
        /\ stack' = [stack EXCEPT ![Len(stack)].hp = Record(@, name, out)]
        /\ last' = Call("text_input", PyNone, name, default, out)
        /\ UNCHANGED <<status, result, nstmts, source, selects, modified_source, other_vars>>

NumberInputCall ==
    \E args \in InputArgs :
        LET default == args[1]
            name == args[2]
            out == NumberInputOutcome(Top.hp, default, name) IN
        /\ stack' = [stack EXCEPT ![Len(stack)].hp = Record(@, name, out)]
        /\ last' = Call("number_input", PyNone, name, default, out)
        /\ UNCHANGED <<status, result, nstmts, source, selects, modified_source, other_vars>>

\* core.py 86: def number_input(self, default=None, name=None)
NumberInputParams == {"default", "name"}

\* the call binds its keyword arguments to the parameters of the def before
\* the body runs: a keyword that names no parameter raises TypeError
BindCall(params, keywords, out) ==
    LET unexpected == SelectSeq(keywords, LAMBDA kw : kw \notin params) IN
    IF unexpected = <<>>
    THEN out
    ELSE Raise("TypeError", "got an unexpected keyword argument", <<unexpected[1]>>)

zero == PyInt(0)
two == PyInt(2)

\* min= and max= of a call; PyNone stands for a keyword that is not passed
Bounds(lo, hi) == <<"bounds", lo, hi>>

BoundsKeywords(lo, hi) ==
    <<"default">> \o (IF lo # PyNone THEN <<"min">> ELSE <<>>)
        \o (IF hi # PyNone THEN <<"max">> ELSE <<>>) \o <<"name">>

\* hp.number_input(default=d, min=lo, max=hi, name="x") as the tests of
\* test_number_input.py 111-173 call it, on the HP of core.py
NumberInputBoundsCall ==
    \E default \in {zero, one, two},
       lo \in {PyNone, one}, hi \in {PyNone, one} :
        LET out == BindCall(NumberInputParams, BoundsKeywords(lo, hi),
                            NumberInputOutcome(Top.hp, default, nx)) IN
        /\ lo # PyNone \/ hi # PyNone
        /\ stack' = [stack EXCEPT ![Len(stack)].hp = Record(@, nx, out)]
        /\ last' = Call("number_input", Bounds(lo, hi), nx, default, out)
        /\ UNCHANGED <<status, result, nstmts, source, selects, modified_source, other_vars>>

NextHP == SelectCall \/ TextInputCall \/ NumberInputCall \/ NumberInputBoundsCall

SpecHP == InitHP /\ [][NextHP]_vars

-----------------------------------------------------------------------------
(* A Hypster invocation: __call__ builds the context, the body executes    *)
(* statement by statement against the innermost context, a propagate       *)
(* statement runs a nested invocation, and an exception raised by a        *)
(* primitive leaves through every enclosing propagate and __call__.        *)

MaxStmts == 3
MaxDepth == 3

no == <<"o">>
ni == <<"i">>
noi == <<"o", ".", "i">>
kox == <<"o", ".", "x">>
koix == <<"o", ".", "i", ".", "x">>
kox_nodot == <<"o", "x">>

PropagateNames == {no, ni, noi}

\* the caller's arguments: every sub-dict of these tables, and these lists
OverridesTable == (nx :> b) @@ (koix :> c) @@ (kox_nodot :> b)
SelectionsTable == (no :> b) @@ (kox :> c) @@ (koix :> b)
FinalVarsLists == {<<>>, <<kox>>, <<nx, kox_nodot, koix>>}

SubDicts(table) == {[k \in ks |-> table[k]] : ks \in SUBSET DOMAIN table}

\* the statement "v = hp.<primitive>(..., name=...)" binds the variable
\* spelled like the name without its dots
VarOf(name) == SelectSeq(name, LAMBDA ch : ch # ".")

Init ==
    /\ EngineOnly
    /\ \E final_vars \in FinalVarsLists,
          selections \in SubDicts(SelectionsTable),
          overrides \in SubDicts(OverridesTable) :
          stack = <<Frame(HP(final_vars, selections, overrides), NoName)>>
    /\ last = NoCall
    /\ status = "running"
    /\ result = PyNone
    /\ nstmts = 0
    /\ NoSource

Reraise_Replaced(out) ==
    Raise("RuntimeError", "configuration failed", <<>>)

\* core.py 156-158: "except Exception as e: logger.error(...); raise", the
\* only handler an exception meets on its way out; propagate (104-120) has
\* none
Reraise(out) ==
    out

\* the effect of a primitive statement with outcome out on the invocation
Executed(op, options, name, default, out) ==
    /\ last' = Call(op, options, name, default, out)
    /\ nstmts' = nstmts + 1
    /\ UNCHANGED <<source, selects, modified_source, other_vars>>
    /\ IF Returned(out)
       THEN /\ stack' = [stack EXCEPT
                           ![Len(stack)].hp = Record(@, name, out),
                           ![Len(stack)].namespace = Put(@, VarOf(name), out[2])]
            /\ UNCHANGED <<status, result>>
       ELSE /\ status' = "failed"
            /\ result' = Reraise(out)
            /\ UNCHANGED stack

ExecSelect ==
    /\ status = "running" /\ nstmts < MaxStmts
    /\ \E options \in {PyList(<<a, b>>)}, default \in {PyNone, a} :
          Executed("select", options, nx, default,
                   SelectOutcome(Top.hp, options, nx, default))

ExecTextInput ==
    /\ status = "running" /\ nstmts < MaxStmts
    /\ Executed("text_input", PyNone, nx, a, TextInputOutcome(Top.hp, a, nx))

ExecNumberInput ==
    /\ status = "running" /\ nstmts < MaxStmts
    /\ Executed("number_input", PyNone, ny, one, NumberInputOutcome(Top.hp, one, ny))

\* core.py 104-115: propagate up to the call of the nested configuration
ExecPropagate ==
    /\ status = "running" /\ nstmts < MaxStmts /\ Len(stack) < MaxDepth
    /\ \E name \in PropagateNames :
          /\ stack' = Append(stack, Frame(NestedHP(Top.hp, name), name))
          /\ last' = Call("propagate", PyNone, name, PyNone, Return(PyNone))
    /\ nstmts' = nstmts + 1
    /\ UNCHANGED <<status, result, source, selects, modified_source, other_vars>>

PropagateStore_Reset(hp, name, res) ==
    [hp EXCEPT !.config_dict = Put(EmptyDict, name, res)]

\* core.py 118: self.config_dict[name] = result
PropagateStore(hp, name, res) ==
    [hp EXCEPT !.config_dict = Put(@, name, res)]

\* core.py 146-154 and 115-120: the body of the innermost invocation ends;
\* a nested invocation hands its result to the propagate that called it
Finish ==
    /\ status = "running"
    /\ LET res == FinalResult(Top.namespace, Top.hp.final_vars)
           name == Top.pname
           n == Len(stack)
       IN  IF n > 1
           THEN /\ stack' = [SubSeq(stack, 1, n - 1) EXCEPT
                               ![n - 1].hp = PropagateStore(@, name, res),
                               ![n - 1].namespace = Put(@, VarOf(name), res)]
                /\ last' = Call("propagated", PyNone, name, PyNone, Return(res))
                /\ UNCHANGED <<status, result>>
           ELSE /\ status' = "returned"
                /\ result' = Return(res)
                /\ last' = Call("returned", PyNone, NoName, PyNone, Return(res))
                /\ UNCHANGED stack
    /\ UNCHANGED <<nstmts, source, selects, modified_source, other_vars>>

Next == ExecSelect \/ ExecTextInput \/ ExecNumberInput \/ ExecPropagate \/ Finish

Spec == Init /\ [][Next]_vars

-----------------------------------------------------------------------------
(* Vocabulary of the properties of HP.select *)

LastSelect == last.op = "select" /\ last.name # NoName

WellFormed == Returned(CanonicalOptions(last.options))

Table == CanonicalOptions(last.options)[2]

IsKey(v) == Hashable(v) /\ DictHas(Table, v)

\* the declaration passes the checks of core.py 22-37
Declared == LastSelect /\ WellFormed /\ (last.default = PyNone \/ IsKey(last.default))

HasOverride == last.name \in DOMAIN Top.hp.overrides
HasSelection == last.name \in DOMAIN Top.hp.selections
Override == Top.hp.overrides[last.name]
Selection == Top.hp.selections[last.name]

RaisedAs(out, type, msg) == Raised(out) /\ out[2] = type /\ out[3] = msg

\* C1 as stated: override, then selection, then default decide the result,
\* and the call fails only when none of the three is present.
C1_AsStated ==
    (LastSelect /\ WellFormed) =>
        /\ Raised(last.out) => (~HasOverride /\ ~HasSelection /\ last.default = PyNone)
        /\ HasOverride => Returned(last.out)
        /\ (~HasOverride /\ HasSelection) => Returned(last.out)

\* C1 (amended): for a select call whose declaration is valid, the outcome
\* is fixed by the override alone when one exists, otherwise by the selection
\* alone when one exists, otherwise by the default, and with none of the
\* three the call fails; besides that it fails only for a selection that is
\* not an option key or an override or selection that cannot be hashed.
C1_Precedence ==
    Declared =>
        /\ HasOverride =>
             \/ (~Hashable(Override) /\ RaisedAs(last.out, "TypeError", "unhashable type"))
             \/ (IsKey(Override) /\ last.out = Return(DictGet(Table, Override)))
             \/ (Hashable(Override) /\ ~IsKey(Override) /\ last.out = Return(Override))
        /\ (~HasOverride /\ HasSelection) =>
             \/ (IsKey(Selection) /\ last.out = Return(DictGet(Table, Selection)))
             \/ (~IsKey(Selection) /\ Raised(last.out))
        /\ (~HasOverride /\ ~HasSelection /\ last.default # PyNone) =>
             last.out = Return(DictGet(Table, last.default))
        /\ (~HasOverride /\ ~HasSelection /\ last.default = PyNone) =>
             Raised(last.out)

\* an override that is no option key wins over a selection and a default
\* that are both option keys
C1_Witness ==
    /\ Declared /\ HasOverride /\ HasSelection /\ last.default # PyNone
    /\ IsKey(Selection) /\ Hashable(Override) /\ ~IsKey(Override)
    /\ last.out = Return(Override)
    /\ DictGet(Table, Selection) # Override
    /\ DictGet(Table, last.default) # Override

\* C2: with an override for the name, the result is the mapped value of the
\* override when it is an option key and the override itself otherwise, and
\* no error is raised.
C2_OverrideBranch ==
    (Declared /\ HasOverride) =>
        last.out = IF DictHas(Table, Override)
                   THEN Return(DictGet(Table, Override))
                   ELSE Return(Override)

\* C3: with no override and a selection that is not an option key, select
\* raises InvalidSelectionError carrying the selection and the list of keys.
C3_InvalidSelection ==
    (Declared /\ ~HasOverride /\ HasSelection /\ ~DictHas(Table, Selection)) =>
        /\ RaisedAs(last.out, "InvalidSelectionError", "Invalid selection")
        /\ last.out[4][1] = Selection
        /\ last.out[4][3] = DictKeys(Table)

\* C4: with no override, no selection and no default, select raises an error
\* that carries the name, and returns nothing.
C4_Unresolved ==
    (LastSelect /\ WellFormed /\ ~HasOverride /\ ~HasSelection /\ last.default = PyNone) =>
        /\ Raised(last.out)
        /\ last.out[4] = <<last.name>>

C4_Witness ==
    /\ LastSelect /\ WellFormed /\ Len(Table) > 0
    /\ ~HasOverride /\ ~HasSelection /\ last.default = PyNone
    /\ Raised(last.out)
    /\ last.name \notin DOMAIN Top.hp.config_dict

Primitives == {"select", "text_input", "number_input"}

\* C5: a primitive call that returns writes record[name] = the returned value
\* and keeps every other entry; a call that raises leaves the record as it
\* was; no key is ever removed.
C5_Record ==
    [][LET before == stack[1].hp.config_dict
           after == stack'[1].hp.config_dict
       IN  (last'.op \in Primitives /\ Len(stack) = 1 /\ Len(stack') = 1) =>
             /\ DOMAIN before \subseteq DOMAIN after
             /\ \A k \in DOMAIN before : k # last'.name => after[k] = before[k]
             /\ Returned(last'.out) =>
                  /\ last'.name \in DOMAIN after
                  /\ after[last'.name] = last'.out[2]
             /\ Raised(last'.out) => after = before
      ]_vars

C5_Witness ==
    /\ last.op = "number_input" /\ Returned(last.out)
    /\ Top.hp.config_dict[last.name] = last.out[2]
    /\ DOMAIN Top.hp.config_dict = {nx, ny}
    /\ Top.hp.config_dict[nx] # Top.hp.config_dict[ny]

Elems(options) == {options[2][i] : i \in DOMAIN options[2]}

\* C6: for a list of scalars, a selected or defaulted element resolves to
\* itself, and distinct elements resolve to distinct values.
C6_Bijection ==
    (LastSelect /\ TypeOf(last.options) = "list" /\ WellFormed /\ ~HasOverride) =>
        LET elems == Elems(last.options) IN
        /\ (HasSelection /\ Selection \in elems /\ last.default \in elems \cup {PyNone})
              => last.out = Return(Selection)
        /\ (~HasSelection /\ last.default \in elems) => last.out = Return(last.default)
        /\ \A u, v \in elems : u # v => DictGet(Table, u) # DictGet(Table, v)

MixedTypes(options) ==
    \E u, v \in Elems(options) : TypeOf(u) # TypeOf(v)

\* C7: select raises at once for a dict with a non-string key, for a list of
\* mixed-type scalars and for options that are neither a list nor a dict.
C7_Malformed ==
    (last.op = "select" /\ last.name # NoName) =>
        /\ (TypeOf(last.options) = "dict"
              /\ \E i \in DOMAIN last.options[2] : TypeOf(last.options[2][i][1]) # "str")
             => Raised(last.out)
        /\ (TypeOf(last.options) = "list" /\ MixedTypes(last.options))
             => Raised(last.out)
        /\ TypeOf(last.options) \notin {"list", "dict"} => Raised(last.out)

\* C8: a default that is not an option key makes select raise the default's
\* own error, whatever override or selection exists for the name.
C8_DefaultValidated ==
    (LastSelect /\ WellFormed /\ last.default # PyNone /\ ~IsKey(last.default)) =>
        \/ RaisedAs(last.out, "ValueError", "Default value must be one of the options")
        \/ (~Hashable(last.default) /\ RaisedAs(last.out, "TypeError", "unhashable type")
              /\ last.out[4] = <<last.default>>)

C8_Witness ==
    /\ LastSelect /\ WellFormed /\ last.default # PyNone /\ Hashable(last.default)
    /\ ~IsKey(last.default)
    /\ HasOverride /\ HasSelection /\ IsKey(Selection)
    /\ RaisedAs(last.out, "ValueError", "Default value must be one of the options")

-----------------------------------------------------------------------------
(* Vocabulary of the properties of HP.propagate *)

Range(seq) == {seq[i] : i \in DOMAIN seq}

Suffixes(k) == {SubSeq(k, i, Len(k)) : i \in 1..(Len(k) + 1)}

Segments(k) == 1 + Cardinality({i \in DOMAIN k : k[i] = "."})

\* child holds exactly the entries of parent keyed "P.<rest>", keyed <rest>
ExactlyPrefixed(child, parent, P) ==
    /\ \A kc \in DOMAIN child :
          /\ (P \o <<".">> \o kc) \in DOMAIN parent
          /\ child[kc] = parent[P \o <<".">> \o kc]
    /\ \A k \in DOMAIN parent : \A rest \in Suffixes(k) :
          (k = P \o <<".">> \o rest) => rest \in DOMAIN child

ExactlyPrefixedList(child, parent, P) ==
    /\ \A j \in DOMAIN child : (P \o <<".">> \o child[j]) \in Range(parent)
    /\ \A j \in DOMAIN parent : \A rest \in Suffixes(parent[j]) :
          (parent[j] = P \o <<".">> \o rest) => rest \in Range(child)
    /\ Len(child) =
         Cardinality({j \in DOMAIN parent :
                        \E rest \in Suffixes(parent[j]) : parent[j] = P \o <<".">> \o rest})

\* the arguments of the nested call made by the propagate that opened frame i
Hop(i) ==
    LET parent == stack[i - 1].hp
        child == stack[i].hp
        P == stack[i].pname
    IN  /\ ExactlyPrefixed(child.selections, parent.selections, P)
        /\ ExactlyPrefixed(child.overrides, parent.overrides, P)
        /\ ExactlyPrefixedList(child.final_vars, parent.final_vars, P)

RECURSIVE PathPrefix(_)
\* "P2.P3. ... Pi.": the prefixes stripped on the way down to frame i
PathPrefix(i) == IF i < 2 THEN <<>> ELSE PathPrefix(i - 1) \o Dotted(stack[i].pname)

RECURSIVE PathSegments(_)
PathSegments(i) == IF i < 2 THEN 0 ELSE PathSegments(i - 1) + Segments(stack[i].pname)

\* every entry of frame i is the caller's entry keyed by the whole path
FromRoot(i) ==
    /\ \A kc \in DOMAIN stack[i].hp.selections :
          /\ (PathPrefix(i) \o kc) \in DOMAIN stack[1].hp.selections
          /\ stack[i].hp.selections[kc] = stack[1].hp.selections[PathPrefix(i) \o kc]
    /\ \A kc \in DOMAIN stack[i].hp.overrides :
          /\ (PathPrefix(i) \o kc) \in DOMAIN stack[1].hp.overrides
          /\ stack[i].hp.overrides[kc] = stack[1].hp.overrides[PathPrefix(i) \o kc]

FrameKeys(i) ==
    DOMAIN stack[i].hp.selections \cup DOMAIN stack[i].hp.overrides
        \cup Range(stack[i].hp.final_vars)

\* C9 as stated: the nested call gets exactly the entries keyed "P.<rest>",
\* re-keyed <rest>, and k nested propagations strip exactly k segments.
C9_AsStated ==
    \A i \in 2..Len(stack) :
        /\ Hop(i)
        /\ \A kc \in FrameKeys(i) : Segments(PathPrefix(i) \o kc) = Segments(kc) + (i - 1)

\* C9 (amended): the nested call gets exactly the entries keyed "P.<rest>",
\* re-keyed <rest> with their values; k nested propagations strip the
\* prefixes "P1.", ..., "Pk.", which are as many segments as the names
\* P1..Pk have together: exactly k when every name is a single segment.
C9_Propagated ==
    \A i \in 2..Len(stack) :
        /\ Hop(i)
        /\ FromRoot(i)
        /\ \A kc \in FrameKeys(i) :
              Segments(PathPrefix(i) \o kc) = Segments(kc) + PathSegments(i)
        /\ (\A j \in 2..i : Segments(stack[j].pname) = 1) => PathSegments(i) = i - 1

\* two hops o, i: "o.i.x" arrives as "x" while "o" and "ox" stay behind
C9_Witness ==
    /\ Len(stack) = 3 /\ stack[2].pname = no /\ stack[3].pname = ni
    /\ DOMAIN stack[1].hp.overrides = {nx, koix, kox_nodot}
    /\ DOMAIN stack[2].hp.overrides = {<<"i", ".", "x">>}
    /\ stack[3].hp.overrides = (nx :> c)
    /\ DOMAIN stack[1].hp.selections = {no, kox, koix}
    /\ stack[2].hp.selections = (nx :> c) @@ (<<"i", ".", "x">> :> b)
    /\ stack[1].hp.final_vars = <<nx, kox_nodot, koix>>
    /\ stack[3].hp.final_vars = <<nx>>

\* the override whose reach C10 is about, and the scope it addresses
K == koix
TargetScope == Dotted(no) \o Dotted(ni)

RECURSIVE ContextAt(_, _)
\* the context of frame i had the top-level invocation been called with root
ContextAt(root, i) ==
    IF i = 1 THEN root ELSE NestedHP(ContextAt(root, i - 1), stack[i].pname)

WithoutOverride(hp, k) ==
    [hp EXCEPT !.overrides = [kk \in (DOMAIN hp.overrides) \ {k} |-> hp.overrides[kk]]]

OutcomeIn(hp) ==
    CASE last.op = "select" -> SelectOutcome(hp, last.options, last.name, last.default)
      [] last.op = "text_input" -> TextInputOutcome(hp, last.default, last.name)
      [] last.op = "number_input" -> NumberInputOutcome(hp, last.default, last.name)

\* C10: an override keyed "o.i.x" decides the primitive named x executed in
\* the scope o.i, and a primitive named x executed in any other scope has the
\* outcome it has when the invocation is called without that override.
C10_Isolation ==
    (last.op \in Primitives /\ last.name = nx /\ K \in DOMAIN stack[1].hp.overrides) =>
        IF PathPrefix(Len(stack)) = TargetScope
        THEN /\ nx \in DOMAIN Top.hp.overrides
             /\ Top.hp.overrides[nx] = stack[1].hp.overrides[K]
             /\ last.out = Return(stack[1].hp.overrides[K])
             /\ last.out # OutcomeIn(ContextAt(WithoutOverride(stack[1].hp, K), Len(stack)))
        ELSE last.out = OutcomeIn(ContextAt(WithoutOverride(stack[1].hp, K), Len(stack)))

C10_Witness ==
    /\ Len(stack) = 3 /\ stack[2].pname = no /\ stack[3].pname = ni
    /\ K \in DOMAIN stack[1].hp.overrides
    /\ nx \in DOMAIN stack[1].hp.overrides
    /\ last.op = "select" /\ last.name = nx /\ last.default = a
    /\ last.out = Return(c)
    /\ Top.hp.config_dict[nx] = c

-----------------------------------------------------------------------------
(* The list-valued inputs multi_text, multi_number and multi_bool, which   *)
(* the tests call on the context and core.py does not define: they take    *)
(* the override for the name, else the declared default, else the empty    *)
(* list, and validate what is supplied by type.  Selections name option    *)
(* keys and an input declares no options, so selections are not read.      *)

MultiKinds == {"multi_text", "multi_number", "multi_bool"}

OfKind(kind, v) ==
    CASE kind = "multi_text" -> TypeOf(v) = "str"
      [] kind = "multi_number" -> TypeOf(v) \in {"int", "float"}
      [] kind = "multi_bool" -> TypeOf(v) = "bool"

ValidList(kind, v) ==
    /\ TypeOf(v) = "list"
    /\ \A i \in DOMAIN v[2] : OfKind(kind, v[2][i])

MultiOutcome_Unresolved(hp, kind, default, name) ==
    IF name \in DOMAIN hp.overrides
    THEN Return(hp.overrides[name])
    ELSE IF default = PyNone
    THEN Raise("ValueError", "No default value or override provided", <<name>>)
    ELSE Return(default)

MultiOutcome(hp, kind, default, name) ==
    IF name = NoName
    THEN Raise("ValueError", "Name must be provided", <<>>)
    ELSE IF default # PyNone /\ ~ValidList(kind, default)
    THEN Raise("TypeError", "default is not a list of the declared type", <<default>>)
    ELSE IF name \in DOMAIN hp.overrides
    THEN IF ValidList(kind, hp.overrides[name])
         THEN Return(hp.overrides[name])
         ELSE Raise("TypeError", "override is not a list of the declared type",
                    <<hp.overrides[name]>>)
    ELSE IF default = PyNone
    THEN Return(PyList(<<>>))
    ELSE Return(default)

\* the defaults of the multi_* calls made
MultiDefaults ==
    {PyNone, PyList(<<a, b>>), PyList(<<one, two>>), PyList(<<true>>), a}

MultiCall ==
    \E kind \in MultiKinds, default \in MultiDefaults, name \in {nx, ny, NoName} :
        LET out == MultiOutcome(Top.hp, kind, default, name) IN
        /\ stack' = [stack EXCEPT ![Len(stack)].hp = Record(@, name, out)]
        /\ last' = Call(kind, PyNone, name, default, out)
        /\ UNCHANGED <<status, result, nstmts, source, selects, modified_source, other_vars>>

NextMulti == MultiCall

SpecMulti == InitHP /\ [][NextMulti]_vars

-----------------------------------------------------------------------------
(* Properties of HP.propagate's return and of failures *)

\* the step in which a nested invocation returns to the propagate that
\* called it
PropagateReturns ==
    /\ status = "running" /\ Len(stack) > 1
    /\ Len(stack') = Len(stack) - 1
    /\ last'.op = "propagated"

\* C11: when the nested configuration called by propagate(config_func, P)
\* completes, the parent's record maps P to the mapping the nested call
\* returned, the caller of propagate gets that same mapping, every other key
\* of the parent's record keeps its value, and the parent's selections,
\* overrides and final_vars, like every enclosing frame, are untouched.
C11_PropagateFrame ==
    [][PropagateReturns =>
        LET n == Len(stack)
            P == stack[n].pname
            returned == FinalResult(stack[n].namespace, stack[n].hp.final_vars)
            before == stack[n - 1].hp
            after == stack'[n - 1].hp
        IN  /\ last'.name = P
            /\ last'.out = Return(returned)
            /\ TypeOf(returned) = "mapping"
            /\ DOMAIN after.config_dict = DOMAIN before.config_dict \cup {P}
            /\ after.config_dict[P] = returned
            /\ stack'[n - 1].namespace[VarOf(P)] = returned
            /\ \A k \in DOMAIN before.config_dict \ {P} :
                  after.config_dict[k] = before.config_dict[k]
            /\ after.selections = before.selections
            /\ after.overrides = before.overrides
            /\ after.final_vars = before.final_vars
            /\ \A i \in 1..(n - 2) : stack'[i] = stack[i]]_vars

\* a nested call returned a non-empty mapping into a parent whose record
\* already held a key other than P, and whose selections and overrides are
\* not empty
C11_Witness ==
    /\ last.op = "propagated"
    /\ Top.hp.config_dict[last.name] = last.out[2]
    /\ DOMAIN last.out[2][2] # {}
    /\ DOMAIN Top.hp.config_dict \ {last.name} # {}
    /\ DOMAIN Top.hp.selections # {}
    /\ DOMAIN Top.hp.overrides # {}

\* the step in which a primitive of a nested configuration raises
NestedFailure ==
    status = "running" /\ status' = "failed" /\ Len(stack) > 1

\* C12: when a nested configuration called by propagate fails, the failure
\* the primitive raised is the one the caller of the top-level invocation
\* gets, no frame's record is written (key P is not added to the parent's
\* record), and the invocation, once failed, never returns a result mapping.
C12_FailurePropagates ==
    [][/\ NestedFailure =>
            /\ Raised(last'.out)
            /\ result' = last'.out
            /\ last'.out = OutcomeIn(Top.hp)'
            /\ stack' = stack
       /\ status = "failed" => (status' = "failed" /\ result' = result)]_vars

\* a select of the configuration propagated under "o" failed on the invalid
\* selection "o.x", after the parent had recorded a primitive of its own;
\* the parent's record does not hold the propagation name
C12_Witness ==
    /\ status = "failed" /\ Len(stack) = 2
    /\ last.op = "select"
    /\ result = last.out
    /\ result[2] = "InvalidSelectionError"
    /\ stack[2].pname = no
    /\ DOMAIN stack[1].hp.config_dict # {}
    /\ no \notin DOMAIN stack[1].hp.config_dict

-----------------------------------------------------------------------------
(* Hypster.__call__ on a body of plain statements: assignments, imports,   *)
(* function and class definitions bind names in the namespace the body is  *)
(* executed in, and the invocation returns the filtered namespace.         *)

\* the values a body binds: "import math", "def inner_func", "class
\* ModelConfig", "g = len", "p = functools.partial(int)"
mod_math == <<"module", "math">>
fn_inner == <<"function", "inner_func">>
cls_ModelConfig == <<"type", "ModelConfig">>
builtin_len == <<"builtin_function_or_method", "len">>
partial_int == <<"partial", "int">>

n_t == <<"_", "t">>
n_d == <<"_", "_", "d">>
n_math == <<"m", "a", "t", "h">>
n_f == <<"f">>
n_C == <<"C">>
n_g == <<"g">>
n_p == <<"p">>

\* the bindings <<name, value>> the statements of the body make
Bindings ==
    {<<nx, a>>, <<nx, one>>, <<n_t, a>>, <<n_d, a>>, <<n_math, mod_math>>,
     <<n_f, fn_inner>>, <<n_C, cls_ModelConfig>>, <<n_g, builtin_len>>,
     <<n_p, partial_int>>, <<n_f, a>>}

\* the final_vars a caller asks for
RequestedLists ==
    {<<>>, <<nx>>, <<nx, n_t, n_g>>, <<n_f, n_C, ny>>, <<HpVar, n_math, nx, nx>>}

InitNS ==
    /\ EngineOnly
    /\ \E final_vars \in RequestedLists :
          stack = <<Frame(HP(final_vars, EmptyDict, EmptyDict), NoName)>>
    /\ last = NoCall
    /\ status = "running"
    /\ result = PyNone
    /\ nstmts = 0
    /\ NoSource

\* core.py 144: exec(function_body, globals(), namespace) runs a statement
\* that binds a name
ExecBind ==
    /\ status = "running" /\ nstmts < MaxStmts
    /\ \E bd \in Bindings :
          /\ stack' = [stack EXCEPT ![Len(stack)].namespace = Put(@, bd[1], bd[2])]
          /\ last' = Call("bind", PyNone, bd[1], PyNone, Return(bd[2]))
    /\ nstmts' = nstmts + 1
    /\ UNCHANGED <<status, result, source, selects, modified_source, other_vars>>

NextNS == ExecBind \/ Finish

SpecNS == InitNS /\ [][NextNS]_vars

-----------------------------------------------------------------------------
(* Properties of the result mapping *)

\* callable(v)
IsCallable(v) ==
    TypeOf(v) \in {"function", "builtin_function_or_method", "partial", "type"}

IsModule(v) == TypeOf(v) = "module"
IsType(v) == TypeOf(v) = "type"

ReturnedMapping == result[2][2]

\* C13 as stated: the result mapping of an invocation called without
\* final_vars holds a binding of the namespace if and only if it is not
\* 'hp', its name does not begin with an underscore and its value is not a
\* module, a callable or a type object.
C13_ResultFilter ==
    (status = "returned" /\ Top.hp.final_vars = <<>>) =>
        \A k \in DOMAIN Top.namespace :
            LET v == Top.namespace[k]
                kept == /\ k # HpVar
                        /\ k[1] # "_"
                        /\ ~IsModule(v) /\ ~IsCallable(v) /\ ~IsType(v)
            IN  /\ k \in DOMAIN ReturnedMapping <=> kept
                /\ k \in DOMAIN ReturnedMapping => ReturnedMapping[k] = v

\* C14: with a non-empty final_vars the returned mapping has exactly the
\* requested names as keys, a requested name has the value the filtered
\* namespace gives it and None when the filtered namespace does not have it;
\* with an empty final_vars the whole filtered namespace is returned.
C14_Projection ==
    status = "returned" =>
        LET final_vars == Top.hp.final_vars
            filtered == ProcessResults(Top.namespace)
        IN  /\ Returned(result) /\ TypeOf(result[2]) = "mapping"
            /\ IF final_vars # <<>>
               THEN /\ DOMAIN ReturnedMapping = Range(final_vars)
                    /\ \A k \in Range(final_vars) :
                          /\ k \in DOMAIN filtered => ReturnedMapping[k] = filtered[k]
                          /\ k \notin DOMAIN filtered => ReturnedMapping[k] = PyNone
               ELSE ReturnedMapping = filtered

\* the caller asked for x, _t and g: x is bound and returned, _t is bound but
\* filtered out, so it is None
C14_Witness ==
    /\ status = "returned"
    /\ Top.hp.final_vars = <<nx, n_t, n_g>>
    /\ {nx, n_t} \subseteq DOMAIN Top.namespace
    /\ n_g \notin DOMAIN Top.namespace
    /\ ReturnedMapping = (nx :> one) @@ (n_t :> PyNone) @@ (n_g :> PyNone)

-----------------------------------------------------------------------------
(* Properties of the scalar inputs *)

ScalarInputs == {"text_input", "number_input"}

LastInput == last.op \in ScalarInputs /\ last.name # NoName /\ last.options = PyNone

\* C15 as stated: text_input and number_input resolve like select: the
\* override for the name wins, otherwise the named selection wins over the
\* default, otherwise the default is returned, and with none the call fails.
C15_ScalarPrecedence ==
    LastInput =>
        IF HasOverride THEN last.out = Return(Override)
        ELSE IF HasSelection THEN last.out = Return(Selection)
        ELSE IF last.default # PyNone THEN last.out = Return(last.default)
        ELSE Raised(last.out)

\* isinstance(v, str) for text_input, isinstance(v, (int, float)) for
\* number_input
OfDeclaredType(op, v) ==
    IF op = "text_input" THEN TypeOf(v) = "str" ELSE IsNumeric(v)

\* the values supplied to the last input: its default and its override
Supplied ==
    (IF last.default # PyNone THEN {last.default} ELSE {})
        \cup (IF HasOverride THEN {Override} ELSE {})

\* C16 as stated: a text_input or number_input whose default or override is
\* not of the declared type fails with a TypeError instead of returning.
C16_TypeChecked ==
    (LastInput /\ \E v \in Supplied : ~OfDeclaredType(last.op, v)) =>
        /\ Raised(last.out)
        /\ last.out[2] = "TypeError"

\* the last call is a number_input with declared bounds whose supplied
\* values are numbers
LastBounded ==
    /\ last.op = "number_input" /\ TypeOf(last.options) = "bounds"
    /\ \A v \in Supplied : IsNumeric(v)

\* min <= v <= max for the bounds that are declared
InRange(v) ==
    /\ last.options[2] # PyNone => last.options[2][2] <= v[2]
    /\ last.options[3] # PyNone => v[2] <= last.options[3][2]

\* C17 as stated: a number_input with declared min and/or max returns a
\* value inside the inclusive range unchanged, and fails with a validation
\* error when the default or the override is below min or above max.
C17_Bounds ==
    LastBounded =>
        IF \A v \in Supplied : InRange(v)
        THEN last.out = Return(IF HasOverride THEN Override ELSE last.default)
        ELSE Raised(last.out) /\ last.out[2] = "ValueError"

-----------------------------------------------------------------------------
(* ast_analyzer.py: the source of a configuration as ast.parse gives it.   *)
(* A node is a tagged tuple named after its ast class; identifiers, dict   *)
(* keys and keyword names are sequences of characters.  Python compares    *)
(* nodes by identity: a node is identified by its position, the path of    *)
(* child indices that leads to it from the module.                         *)

Module(body) == <<"Module", body>>
Assign(target, value, lineno) == <<"Assign", target, value, lineno>>
Expr(value, lineno) == <<"Expr", value, lineno>>
Constant(value) == <<"Constant", value>>
Name(id) == <<"Name", id>>
Attribute(value, attr) == <<"Attribute", value, attr>>
\* a list display of constants, with the value it evaluates to
List(value) == <<"List", value>>
Dict(keys, values) == <<"Dict", keys, values>>
\* body if test else orelse
IfExp(test, body, orelse) == <<"IfExp", test, body, orelse>>
keyword(arg, value) == <<arg, value>>
CallNode(func, args, keywords, lineno) == <<"Call", func, args, keywords, lineno>>

NodeType(node) == node[1]
KeywordValues(node) == [j \in DOMAIN node[4] |-> node[4][j][2]]

\* the child nodes in the order of ast.NodeVisitor.generic_visit
Children(node) ==
    CASE NodeType(node) = "Module" -> node[2]
      [] NodeType(node) = "Assign" -> <<node[2], node[3]>>
      [] NodeType(node) = "Expr" -> <<node[2]>>
      [] NodeType(node) = "Attribute" -> <<node[2]>>
      [] NodeType(node) = "Dict" -> node[2] \o node[3]
      [] NodeType(node) = "IfExp" -> <<node[2], node[3], node[4]>>
      [] NodeType(node) = "Call" -> <<node[2]>> \o node[3] \o KeywordValues(node)
      [] OTHER -> <<>>

RECURSIVE NodeAt(_, _)
NodeAt(node, pos) ==
    IF pos = <<>> THEN node ELSE NodeAt(Children(node)[Head(pos)], Tail(pos))

\* the positions of the children of a node at pos
DictValuePos(pos, node, j) == pos \o <<Len(node[2]) + j>>
CallArgPos(pos, j) == pos \o <<1 + j>>
CallKeywordPos(pos, node, j) == pos \o <<1 + Len(node[3]) + j>>

RECURSIVE Walk(_, _), WalkChildren(_, _, _)
\* the positions of the nodes under node in the order NodeVisitor.visit
\* reaches them
Walk(node, pos) == <<pos>> \o WalkChildren(Children(node), pos, 1)

WalkChildren(children, pos, j) ==
    IF j > Len(children)
    THEN <<>>
    ELSE Walk(children[j], pos \o <<j>>) \o WalkChildren(children, pos, j + 1)

kw_select == <<"s", "e", "l", "e", "c", "t">>
kw_text_input == <<"t", "e", "x", "t", "_", "i", "n", "p", "u", "t">>
kw_number_input == <<"n", "u", "m", "b", "e", "r", "_", "i", "n", "p", "u", "t">>
kw_name == <<"n", "a", "m", "e">>
kw_default == <<"d", "e", "f", "a", "u", "l", "t">>
kw_arg == <<"a", "r", "g">>
kw_kwargs == <<"k", "w", "a", "r", "g", "s">>
kw_Unknown == <<"U", "n", "k", "n", "o", "w", "n">>
kw_unknown_key == <<"_", "_", "u", "n", "k", "n", "o", "w", "n", "_", "_">>

\* a name that is not None and not the empty string
Truthy(name) == name # NoName /\ name # <<>>

\* str(idx) for the indices that occur
Digits == <<"0", "1", "2", "3", "4", "5", "6", "7", "8", "9">>
Str(idx) == <<Digits[idx + 1]>>

RECURSIVE Join(_)
\* '.'.join(path)
Join(path) ==
    IF Len(path) = 1 THEN path[1] ELSE path[1] \o <<".">> \o Join(Tail(path))

RECURSIVE Split(_)
\* name.split('.')
Split(name) ==
    LET dots == {j \in DOMAIN name : name[j] = "."} IN
    IF dots = {}
    THEN <<name>>
    ELSE LET j == CHOOSE d \in dots : \A e \in dots : d <= e IN
         <<SubSeq(name, 1, j - 1)>> \o Split(SubSeq(name, j + 1, Len(name)))

\* ast.unparse(node): the text of a node, equal for equal trees
Unparse(node) == <<"unparse", node>>

RECURSIVE GetTargetName(_)
\* ast_analyzer.py 229-235 and 50-56
GetTargetName(node) ==
    IF NodeType(node) = "Name" THEN node[2]
    ELSE IF NodeType(node) = "Attribute"
    THEN GetTargetName(node[2]) \o <<".">> \o node[3]
    ELSE kw_Unknown

\* ast_analyzer.py 149-155: HPSelectAnalyzer.get_node_value
GetNodeValue(node) ==
    IF NodeType(node) = "Constant" THEN node[2]
    ELSE IF NodeType(node) = "Name" THEN node[2]
    ELSE Unparse(node)

\* ast_analyzer.py 129-133: is_hp_select, of a Call node
IsHpSelect(node) ==
    /\ NodeType(node[2]) = "Attribute"
    /\ NodeType(node[2][2]) = "Name"
    /\ node[2][2][2] = HpVar
    /\ node[2][3] = kw_select

\* ast_analyzer.py 135-147: get_hp_select_name
GetHpSelectName(node) ==
    LET named == {j \in DOMAIN node[4] : node[4][j][1] = kw_name} IN
    IF Len(node[3]) >= 2 THEN GetNodeValue(node[3][2])
    ELSE IF named # {}
    THEN GetNodeValue(node[4][CHOOSE j \in named : \A e \in named : j <= e][2])
    ELSE NoName

MaxParts == 4

\* ast_analyzer.py 119-124: is_valid_inference
IsValidInference(inferred_name) ==
    LET parts == Split(inferred_name) IN
    /\ Len(parts) <= MaxParts
    /\ \A j \in DOMAIN parts : ~StartsWith(parts[j], kw_arg)

\* the least member of a non-empty set of indices
First(hits) == CHOOSE j \in hits : \A e \in hits : j <= e

RECURSIVE FindNodeInAssignment(_, _, _, _)
\* ast_analyzer.py 177-206: find_node_in_assignment; value_node is the node
\* at vpos, target_node is the node at target; each loop returns the first
\* result that is not None
FindNodeInAssignment(value_node, vpos, target, path) ==
    IF NodeType(value_node) = "Dict"
    THEN LET tryValue(j) ==
                 LET longer == path \o <<GetNodeValue(value_node[2][j])>>
                     at == DictValuePos(vpos, value_node, j) IN
                 IF at = target THEN Join(longer)
                 ELSE FindNodeInAssignment(value_node[3][j], at, target, longer)
             inValues == {j \in DOMAIN value_node[3] : Truthy(tryValue(j))}
         IN  IF inValues # {} THEN tryValue(First(inValues)) ELSE NoName
    ELSE IF NodeType(value_node) = "Call"
    THEN LET tryArg(j) ==
                 LET longer == path \o <<kw_arg \o Str(j - 1)>>
                     at == CallArgPos(vpos, j) IN
                 IF at = target THEN Join(longer)
                 ELSE FindNodeInAssignment(value_node[3][j], at, target, longer)
             tryKeyword(j) ==
                 LET longer == path \o <<value_node[4][j][1]>>
                     at == CallKeywordPos(vpos, value_node, j) IN
                 IF at = target THEN Join(longer)
                 ELSE FindNodeInAssignment(value_node[4][j][2], at, target, longer)
             inArgs == {j \in DOMAIN value_node[3] : Truthy(tryArg(j))}
             inKeywords == {j \in DOMAIN value_node[4] : Truthy(tryKeyword(j))}
         IN  IF inArgs # {} THEN tryArg(First(inArgs))
             ELSE IF inKeywords # {} THEN tryKeyword(First(inKeywords))
             ELSE NoName
    ELSE NoName

\* ast_analyzer.py 42-48: VariableGraphBuilder.get_node_value
GraphNodeValue(node) ==
    IF NodeType(node) = "Constant" THEN node[2]
    ELSE IF NodeType(node) \in {"Name", "Attribute"} THEN GetTargetName(node)
    ELSE Unparse(node)

\* ast_analyzer.py 58-61: get_key_name, of a key that is a string constant
\* or a name
GetKeyName(node) ==
    IF NodeType(node) = "Constant" THEN node[2] ELSE GetTargetName(node)

RECURSIVE BuildSubgraph(_)
\* ast_analyzer.py 26-40: build_subgraph; a dict of the graph is the
\* sequence of its items, a call the dict with the keys __call__, args and
\* kwargs
BuildSubgraph(node) ==
    CASE NodeType(node) = "Dict" ->
            <<"dict", [j \in DOMAIN node[3] |->
                         <<GetKeyName(node[2][j]), BuildSubgraph(node[3][j])>>]>>
      [] NodeType(node) = "Call" ->
            <<"call", GetTargetName(node[2]),
              [j \in DOMAIN node[3] |-> GraphNodeValue(node[3][j])],
              [j \in DOMAIN node[4] |-> <<node[4][j][1], GraphNodeValue(node[4][j][2])>>]>>
      [] NodeType(node) \in {"Name", "Attribute"} -> <<"leaf", GetTargetName(node)>>
      [] NodeType(node) = "Constant" -> <<"leaf", node[2]>>
      [] OTHER -> <<"dict", <<<<kw_unknown_key, <<"leaf", Unparse(node)>>>>>>>>

\* d[k] = v on a dict kept as the sequence of its items
GraphSet(d, k, v) ==
    IF \E j \in DOMAIN d : d[j][1] = k
    THEN [j \in DOMAIN d |-> IF d[j][1] = k THEN <<k, v>> ELSE d[j]]
    ELSE Append(d, <<k, v>>)

RECURSIVE GraphOf(_, _)
\* ast_analyzer.py 20-24: visit_Assign of every assignment among the first n
\* statements
GraphOf(body, n) ==
    IF n = 0 THEN <<>>
    ELSE LET graph == GraphOf(body, n - 1)
             stmt == body[n] IN
         IF NodeType(stmt) = "Assign"
         THEN GraphSet(graph, GetTargetName(stmt[2]), BuildSubgraph(stmt[3]))
         ELSE graph

VariableGraph(tree) == GraphOf(tree[2], Len(tree[2]))

\* the outcomes of find_node_in_graph: a path, or None
Found(path) == <<"found", path>>
NotFound == <<"none">>
\* "if path:", false of None and of the empty path
FoundPath(r) == r[1] = "found" /\ r[2] # <<>>

RECURSIVE FindNodeInGraph(_, _, _)
\* ast_analyzer.py 208-227: find_node_in_graph; the lists and the strings
\* under a call of the graph hold no dict, so the search into a call that
\* does not match finds nothing
FindNodeInGraph(graph, node, path) ==
    IF graph[1] = "call"
    THEN IF /\ graph[2] = HpVar \o <<".">> \o kw_select
            /\ graph[3] # <<>>
            /\ GetNodeValue(node[3][1]) = graph[3][1]
         THEN Found(path)
         ELSE NotFound
    ELSE IF graph[1] = "dict"
    THEN LET items == graph[2]
             try(j) == FindNodeInGraph(items[j][2], node, path \o <<items[j][1]>>)
             hits == {j \in DOMAIN items : FoundPath(try(j))}
         IN  IF hits = {} THEN NotFound
             ELSE try(CHOOSE j \in hits : \A e \in hits : j <= e)
    ELSE NotFound

\* ast_analyzer.py 168-175: the search of the variable graph, entry by
\* entry; the first path that is not empty names the call
InferFromGraph(tree, node) ==
    LET graph == VariableGraph(tree)
        found(j) == FindNodeInGraph(graph[j][2], node, <<>>)
        hits == {j \in DOMAIN graph : FoundPath(found(j))}
    IN  IF hits = {} THEN NoName
        ELSE Join(<<graph[First(hits)][1]>>
                    \o SelectSeq(found(First(hits))[2], LAMBDA seg : seg # kw_kwargs))

\* ast_analyzer.py 157-175: infer_name of the call at pos; the current
\* assignment is the statement the call is in, when that is an assignment,
\* and what the search of it gives is returned, found or not
InferName(tree, pos) ==
    LET stmt == tree[2][pos[1]]
        node == NodeAt(tree, pos)
    IN  IF NodeType(stmt) = "Assign"
        THEN LET target == GetTargetName(stmt[2]) IN
             IF NodeType(stmt[3]) = "Call" /\ IsHpSelect(stmt[3])
             THEN target
             ELSE FindNodeInAssignment(stmt[3], <<pos[1], 2>>, pos, <<target>>)
        ELSE InferFromGraph(tree, node)

\* the positions of the hp.select calls in the order visit_Call meets them
SelectCalls(tree) ==
    SelectSeq(Walk(tree, <<>>),
              LAMBDA pos : /\ NodeType(NodeAt(tree, pos)) = "Call"
                           /\ IsHpSelect(NodeAt(tree, pos)))

\* the occurrence index of the k-th hp.select call on its line
SelectIndex(tree, k) ==
    LET calls == SelectCalls(tree) IN
    Cardinality({j \in 1..(k - 1) :
                    NodeAt(tree, calls[j])[5] = NodeAt(tree, calls[k])[5]})

Select(lineno, select_index, explicit_name, implicit_name) ==
    [lineno |-> lineno, select_index |-> select_index,
     explicit_name |-> explicit_name, implicit_name |-> implicit_name]

\* ast_analyzer.py 87-100 and 237-250: analyze_hp_select, the list
\* analyzer.selects
AnalyzeHpSelect(tree) ==
    LET calls == SelectCalls(tree) IN
    [k \in DOMAIN calls |->
        LET node == NodeAt(tree, calls[k])
            explicit_name == GetHpSelectName(node)
            inferred_name == InferName(tree, calls[k])
        IN  Select(node[5], SelectIndex(tree, k), explicit_name,
                   IF /\ ~Truthy(explicit_name)
                      /\ Truthy(inferred_name)
                      /\ IsValidInference(inferred_name)
                   THEN inferred_name ELSE NoName)]

InjectorIndex_InnerFirst(tree, k) ==
    LET calls == SelectCalls(tree)
        Inside(x, y) == /\ Len(calls[x]) > Len(calls[y])
                        /\ SubSeq(calls[x], 1, Len(calls[y])) = calls[y]
    IN  Cardinality({j \in DOMAIN calls :
                        /\ j # k
                        /\ NodeAt(tree, calls[j])[5] = NodeAt(tree, calls[k])[5]
                        /\ (Inside(j, k) \/ (j < k /\ ~Inside(k, j)))})

\* ast_analyzer.py 262-266: self.select_index[lineno] when NameInjector meets
\* the k-th hp.select call: the calls of that line it has met before, as
\* visit_Call counts the call before generic_visit descends into it
InjectorIndex(tree, k) ==
    LET calls == SelectCalls(tree) IN
    Cardinality({j \in 1..(k - 1) :
                    NodeAt(tree, calls[j])[5] = NodeAt(tree, calls[k])[5]})

\* ast_analyzer.py 259-272: what NameInjector.visit_Call does to the call at
\* pos: the keywords it has afterwards
InjectedKeywords(tree, hp_calls, pos) ==
    LET node == NodeAt(tree, pos)
        calls == SelectCalls(tree)
        k == CHOOSE kk \in DOMAIN calls : calls[kk] = pos
        matching == {j \in DOMAIN hp_calls :
                        /\ hp_calls[j].lineno = node[5]
                        /\ hp_calls[j].select_index = InjectorIndex(tree, k)}
    IN  IF matching = {} THEN node[4]
        ELSE LET select == hp_calls[CHOOSE j \in matching : \A e \in matching : j <= e] IN
             IF ~Truthy(select.explicit_name) /\ Truthy(select.implicit_name)
             THEN Append(node[4], keyword(kw_name, Constant(select.implicit_name)))
             ELSE node[4]

RECURSIVE Inject(_, _, _, _)
\* ast_analyzer.py 252-278: NameInjector.visit of the node at pos
Inject(tree, hp_calls, node, pos) ==
    CASE NodeType(node) = "Module" ->
            Module([j \in DOMAIN node[2] |-> Inject(tree, hp_calls, node[2][j], pos \o <<j>>)])
      [] NodeType(node) = "Assign" ->
            Assign(node[2], Inject(tree, hp_calls, node[3], pos \o <<2>>), node[4])
      [] NodeType(node) = "Expr" ->
            Expr(Inject(tree, hp_calls, node[2], pos \o <<1>>), node[3])
      [] NodeType(node) = "Dict" ->
            Dict(node[2],
                 [j \in DOMAIN node[3] |->
                    Inject(tree, hp_calls, node[3][j], DictValuePos(pos, node, j))])
      [] NodeType(node) = "IfExp" ->
            IfExp(Inject(tree, hp_calls, node[2], pos \o <<1>>),
                  Inject(tree, hp_calls, node[3], pos \o <<2>>),
                  Inject(tree, hp_calls, node[4], pos \o <<3>>))
      [] NodeType(node) = "Call" ->
            LET keywords == IF IsHpSelect(node)
                            THEN InjectedKeywords(tree, hp_calls, pos)
                            ELSE node[4] IN
            CallNode(node[2],
                     [j \in DOMAIN node[3] |->
                        Inject(tree, hp_calls, node[3][j], CallArgPos(pos, j))],
                     [j \in DOMAIN keywords |->
                        IF j <= Len(node[4])
                        THEN keyword(keywords[j][1],
                                     Inject(tree, hp_calls, keywords[j][2],
                                            CallKeywordPos(pos, node, j)))
                        ELSE keywords[j]],
                     node[5])
      [] OTHER -> node

InjectNames(tree, hp_calls) == Inject(tree, hp_calls, tree, <<>>)

-----------------------------------------------------------------------------
(* Hypster.__call__ on a configuration given as source: the source is      *)
(* analyzed, the inferred names are injected, and the statements of the    *)
(* modified source are executed against the context.                       *)

\* what the evaluation of an expression leaves: the context and the outcome
Evaluated(hp, out) == [hp |-> hp, out |-> out]

\* the value of the parameter at position idx, or passed by keyword kw, of
\* a call with the argument values argv and the keyword values kwv
Argument(node, argv, kwv, idx, kw, missing) ==
    LET passed == {j \in DOMAIN node[4] : node[4][j][1] = kw} IN
    IF Len(argv) >= idx THEN argv[idx]
    ELSE IF passed # {} THEN kwv[CHOOSE j \in passed : \A e \in passed : e <= j]
    ELSE missing

\* core.py 21, 68, 86: the primitive a call hp.<attr>(...) runs, with the
\* arguments bound to the parameters (options, name, default) of select and
\* (default, name) of text_input and number_input
Primitive(hp, node, argv, kwv) ==
    LET attr == node[2][3] IN
    IF attr = kw_select
    THEN LET name == Argument(node, argv, kwv, 2, kw_name, NoName)
             out == SelectOutcome(hp, argv[1], name,
                                  Argument(node, argv, kwv, 3, kw_default, PyNone))
         IN  Evaluated(Record(hp, name, out), out)
    ELSE LET default == Argument(node, argv, kwv, 1, kw_default, PyNone)
             name == Argument(node, argv, kwv, 2, kw_name, NoName)
             out == IF attr = kw_text_input
                    THEN TextInputOutcome(hp, default, name)
                    ELSE NumberInputOutcome(hp, default, name)
         IN  Evaluated(Record(hp, name, out), out)

IsHpCall(node) ==
    /\ NodeType(node) = "Call"
    /\ NodeType(node[2]) = "Attribute"
    /\ node[2][2] = Name(HpVar)

\* bool(v), the truth value an "if" tests
IsTrue(v) ==
    CASE TypeOf(v) \in {"int", "bool"} -> v[2] # 0
      [] TypeOf(v) = "str" -> v[2] # ""
      [] TypeOf(v) \in {"list", "tuple", "dict"} -> v[2] # <<>>
      [] OTHER -> v # PyNone

RECURSIVE Eval(_, _), EvalAll(_, _)
\* core.py 144: the evaluation of an expression of the body by exec
Eval(node, hp) ==
    CASE NodeType(node) \in {"Constant", "List"} -> Evaluated(hp, Return(node[2]))
      [] NodeType(node) = "Name" -> Evaluated(hp, Return(<<"ref", node[2]>>))
      [] NodeType(node) = "Dict" ->
            LET r == EvalAll(node[3], hp) IN
            IF r.exc # PyNone THEN Evaluated(r.hp, r.exc)
            ELSE Evaluated(r.hp,
                    Return(PyDict([j \in DOMAIN node[3] |->
                                     <<GetNodeValue(node[2][j]), r.vals[j]>>])))
      [] NodeType(node) = "IfExp" ->
            LET test == Eval(node[2], hp) IN
            IF Raised(test.out) THEN test
            ELSE IF IsTrue(test.out[2]) THEN Eval(node[3], test.hp)
            ELSE Eval(node[4], test.hp)
      [] NodeType(node) = "Call" ->
            LET r == EvalAll(node[3] \o KeywordValues(node), hp)
                argv == SubSeq(r.vals, 1, Len(node[3]))
                kwv == SubSeq(r.vals, Len(node[3]) + 1, Len(r.vals))
            IN  IF r.exc # PyNone THEN Evaluated(r.hp, r.exc)
                ELSE IF IsHpCall(node) THEN Primitive(r.hp, node, argv, kwv)
                ELSE Evaluated(r.hp,
                        Return(<<"object", GetTargetName(node[2]), argv,
                                 [j \in DOMAIN kwv |-> <<node[4][j][1], kwv[j]>>]>>))

\* the evaluation of a sequence of expressions from left to right, up to
\* the first that raises
EvalAll(nodes, hp) ==
    IF nodes = <<>>
    THEN [hp |-> hp, vals |-> <<>>, exc |-> PyNone]
    ELSE LET first == Eval(Head(nodes), hp) IN
         IF Raised(first.out)
         THEN [hp |-> first.hp, vals |-> <<>>, exc |-> first.out]
         ELSE LET rest == EvalAll(Tail(nodes), first.hp) IN
              [hp |-> rest.hp, vals |-> <<first.out[2]>> \o rest.vals, exc |-> rest.exc]

\* the calls the configurations make
HpAttr(attr) == Attribute(Name(HpVar), attr)
ab_list == List(PyList(<<a, b>>))
\* hp.select(['a', 'b'], default='a')
SelectAB(lineno) ==
    CallNode(HpAttr(kw_select), <<ab_list>>, <<keyword(kw_default, Constant(a))>>, lineno)
\* hp.number_input(1)
NumberOne(lineno) == CallNode(HpAttr(kw_number_input), <<Constant(one)>>, <<>>, lineno)
\* hp.text_input('a')
TextA(lineno) == CallNode(HpAttr(kw_text_input), <<Constant(a)>>, <<>>, lineno)

\* test_naming.py 6-8: v = hp.select(['a', 'b'], default='a')
\*                     w = hp.number_input(1)
VariableNaming ==
    Module(<<Assign(Name(<<"v">>), SelectAB(1), 1),
             Assign(Name(<<"w">>), NumberOne(2), 2)>>)

\* test_naming.py 27-31: c = {'m': hp.select(['a', 'b'], default='a'),
\*                            'l': hp.number_input(1)}
DictNaming ==
    Module(<<Assign(Name(<<"c">>),
                    Dict(<<Constant(<<"m">>), Constant(<<"l">>)>>,
                         <<SelectAB(2), NumberOne(3)>>), 1)>>)

\* test_naming.py 50-56: o = {'i': {'d': hp.select(...), 'u': hp.number_input(1)}}
NestedNaming ==
    Module(<<Assign(Name(<<"o">>),
                    Dict(<<Constant(<<"i">>)>>,
                         <<Dict(<<Constant(<<"d">>), Constant(<<"u">>)>>,
                                <<SelectAB(3), NumberOne(4)>>)>>), 1)>>)

\* test_naming.py 81-84: g = M(t=hp.select(...), r=hp.text_input('a'))
ClassNaming ==
    Module(<<Assign(Name(<<"g">>),
                    CallNode(Name(<<"M">>), <<>>,
                             <<keyword(<<"t">>, SelectAB(2)),
                               keyword(<<"r">>, TextA(3))>>, 1), 1)>>)

\* v = hp.select(...)
\* c = {'m': hp.select(...), 'k': hp.select(...)}, on one line
SelectsOnly ==
    Module(<<Assign(Name(<<"v">>), SelectAB(1), 1),
             Assign(Name(<<"c">>),
                    Dict(<<Constant(<<"m">>), Constant(<<"k">>)>>,
                         <<SelectAB(2), SelectAB(2)>>), 2)>>)

\* g = M(t=hp.select(...), q={'d': hp.select(...)})
KeywordSelects ==
    Module(<<Assign(Name(<<"g">>),
                    CallNode(Name(<<"M">>), <<>>,
                             <<keyword(<<"t">>, SelectAB(1)),
                               keyword(<<"q">>,
                                       Dict(<<Constant(<<"d">>)>>, <<SelectAB(1)>>))>>,
                             1), 1)>>)

\* r = f(hp.select(...))
PositionalNaming ==
    Module(<<Assign(Name(<<"r">>),
                    CallNode(Name(<<"f">>), <<SelectAB(1)>>, <<>>, 1), 1)>>)

\* v = hp.select(['a', 'b'], name='x', default='a')
\* w = hp.text_input('a', 'y')
ExplicitNaming ==
    Module(<<Assign(Name(<<"v">>),
                    CallNode(HpAttr(kw_select), <<ab_list>>,
                             <<keyword(kw_name, Constant(<<"x">>)),
                               keyword(kw_default, Constant(a))>>, 1), 1),
             Assign(Name(<<"w">>),
                    CallNode(HpAttr(kw_text_input),
                             <<Constant(a), Constant(<<"y">>)>>, <<>>, 2), 2)>>)

\* c = {'m': hp.select(...)}
\* hp.select(...)
ExpressionStatement ==
    Module(<<Assign(Name(<<"c">>),
                    Dict(<<Constant(<<"m">>)>>, <<SelectAB(1)>>), 1),
             Expr(SelectAB(2), 2)>>)

\* v = {'p': {'q': {'r': {'s': hp.select(...)}}}}
DeepNaming ==
    Module(<<Assign(Name(<<"v">>),
                    Dict(<<Constant(<<"p">>)>>,
                      <<Dict(<<Constant(<<"q">>)>>,
                          <<Dict(<<Constant(<<"r">>)>>,
                              <<Dict(<<Constant(<<"s">>)>>, <<SelectAB(1)>>)>>)>>)>>), 1)>>)

\* c = {'args': hp.select(...)}
ArgsKeyNaming ==
    Module(<<Assign(Name(<<"c">>),
                    Dict(<<Constant(<<"a", "r", "g", "s">>)>>, <<SelectAB(1)>>), 1)>>)

\* v = hp.select(['a', 'b'], name='', default='a')
EmptyNameNaming ==
    Module(<<Assign(Name(<<"v">>),
                    CallNode(HpAttr(kw_select), <<ab_list>>,
                             <<keyword(kw_name, Constant(<<>>)),
                               keyword(kw_default, Constant(a))>>, 1), 1)>>)

\* c = {'m': hp.select(['a', 'b'], default=hp.select(['a', 'b'], default='a'))}
NestedSelects ==
    Module(<<Assign(Name(<<"c">>),
                    Dict(<<Constant(<<"m">>)>>,
                         <<CallNode(HpAttr(kw_select), <<ab_list>>,
                                    <<keyword(kw_default, SelectAB(1))>>, 1)>>), 1)>>)

\* v = hp.select(...) if <test> else 'b'
Conditional(test) ==
    Module(<<Assign(Name(<<"v">>), IfExp(Constant(test), SelectAB(1), Constant(b)), 1)>>)

\* c = {'m': hp.select(...)}
\* v = hp.select(...) if True else 'b'
ConditionalAfterDict ==
    Module(<<Assign(Name(<<"c">>),
                    Dict(<<Constant(<<"m">>)>>, <<SelectAB(1)>>), 1),
             Assign(Name(<<"v">>), IfExp(Constant(true), SelectAB(2), Constant(b)), 2)>>)

\* the configurations analyzed: assignments and expression statements whose
\* dict keys are string constants and whose select calls pass the options
\* positionally
Programs ==
    {VariableNaming, DictNaming, NestedNaming, ClassNaming, SelectsOnly,
     KeywordSelects, PositionalNaming, ExplicitNaming, ExpressionStatement,
     DeepNaming, ArgsKeyNaming, EmptyNameNaming, NestedSelects,
     Conditional(true), Conditional(false), ConditionalAfterDict}

\* the caller's arguments: every sub-dict of these tables
SourceSelections ==
    (<<"v">> :> b) @@ (<<"c", ".", "m">> :> b) @@ (<<"o", ".", "i", ".", "d">> :> b)
        @@ (<<"g", ".", "t">> :> b)
        @@ (<<"c", ".", "m", ".", "d", "e", "f", "a", "u", "l", "t">> :> b)
SourceOverrides ==
    (<<"w">> :> two) @@ (<<"c", ".", "l">> :> two) @@ (<<"x">> :> c)

\* a call that passes one keyword twice
RepeatedKeyword(node) ==
    /\ NodeType(node) = "Call"
    /\ \E i, j \in DOMAIN node[4] : i # j /\ node[4][i][1] = node[4][j][1]

\* core.py 144: exec compiles the whole body before it runs a statement of
\* it, and "keyword argument repeated" is a SyntaxError of the compiler
Compile(tree) ==
    LET nodes == Walk(tree, <<>>)
        repeated == {j \in DOMAIN nodes : RepeatedKeyword(NodeAt(tree, nodes[j]))}
    IN  IF repeated = {} THEN Return(PyNone)
        ELSE Raise("SyntaxError", "keyword argument repeated",
                   <<NodeAt(tree, nodes[First(repeated)])[5]>>)

InitSource ==
    /\ EngineOnly
    /\ source \in Programs
    /\ selects = <<>>
    /\ modified_source = <<>>
    /\ stack = <<>>
    /\ last = NoCall
    /\ status = "idle"
    /\ result = PyNone
    /\ nstmts = 0

\* core.py 127-144: __call__ builds the context, analyzes the source,
\* injects the names and hands the body to exec
HypsterCall ==
    /\ status = "idle"
    /\ \E selections \in SubDicts(SourceSelections),
          overrides \in SubDicts(SourceOverrides) :
          stack' = <<Frame(HP(<<>>, selections, overrides), NoName)>>
    /\ selects' = AnalyzeHpSelect(source)
    /\ modified_source' = InjectNames(source, selects')
    /\ IF Returned(Compile(modified_source'))
       THEN status' = "running" /\ UNCHANGED result
       ELSE status' = "failed" /\ result' = Reraise(Compile(modified_source'))
    /\ UNCHANGED <<last, nstmts, source, other_vars>>

\* core.py 144: exec runs the next statement of the modified source
ExecStatement ==
    /\ status = "running"
    /\ nstmts < Len(modified_source[2])
    /\ LET stmt == modified_source[2][nstmts + 1]
           value == IF NodeType(stmt) = "Assign" THEN stmt[3] ELSE stmt[2]
           target == IF NodeType(stmt) = "Assign" THEN GetTargetName(stmt[2]) ELSE NoName
           r == Eval(value, Top.hp)
       IN  /\ last' = Call("statement", PyNone, target, PyNone, r.out)
           /\ IF Returned(r.out)
              THEN /\ stack' = [stack EXCEPT
                                  ![1].hp = r.hp,
                                  ![1].namespace =
                                      IF NodeType(stmt) = "Assign"
                                      THEN Put(@, target, r.out[2]) ELSE @]
                   /\ UNCHANGED <<status, result>>
              ELSE /\ stack' = [stack EXCEPT ![1].hp = r.hp]
                   /\ status' = "failed"
                   /\ result' = Reraise(r.out)
    /\ nstmts' = nstmts + 1
    /\ UNCHANGED <<source, selects, modified_source, other_vars>>

\* core.py 146-154: the body has run to its end
BodyEnds ==
    /\ status = "running"
    /\ nstmts = Len(modified_source[2])
    /\ Finish

NextSource == HypsterCall \/ ExecStatement \/ BodyEnds

SpecSource == InitSource /\ [][NextSource]_vars

-----------------------------------------------------------------------------
(* Properties of the inferred names *)

PrimitiveAttrs == {kw_select, kw_text_input, kw_number_input}

\* a call hp.select(...), hp.text_input(...) or hp.number_input(...)
IsPrimitiveCall(node) == IsHpCall(node) /\ node[2][3] \in PrimitiveAttrs

\* the call passes a name, as its second argument or by keyword
ExplicitlyNamed(node) ==
    Len(node[3]) >= 2 \/ \E j \in DOMAIN node[4] : node[4][j][1] = kw_name

\* the call with name=<name> added
Named(node, name) ==
    CallNode(node[2], node[3], Append(node[4], keyword(kw_name, Constant(name))), node[5])

\* a path of at most four segments, none of them a positional marker
PathAccepted(path) ==
    Len(path) <= MaxParts /\ \A j \in DOMAIN path : ~StartsWith(path[j], kw_arg)

RECURSIVE NamedByPath(_, _)
\* the expression in which every primitive call without a name, reached
\* from the assigned variable through dict keys and keyword names only, is
\* named by the dotted path that leads to it
NamedByPath(node, path) ==
    CASE NodeType(node) = "Dict" ->
            Dict(node[2],
                 [j \in DOMAIN node[3] |->
                    NamedByPath(node[3][j], path \o <<GetNodeValue(node[2][j])>>)])
      [] NodeType(node) = "Call" ->
            LET inner == CallNode(node[2], node[3],
                                  [j \in DOMAIN node[4] |->
                                     keyword(node[4][j][1],
                                             NamedByPath(node[4][j][2],
                                                         path \o <<node[4][j][1]>>))],
                                  node[5])
            IN  IF /\ IsPrimitiveCall(node)
                   /\ ~ExplicitlyNamed(node)
                   /\ PathAccepted(path)
                THEN Named(inner, Join(path))
                ELSE inner
      [] OTHER -> node

\* the statement executed last, as the caller wrote it and as it was run
LastWritten == source[2][nstmts]
LastRun == modified_source[2][nstmts]

\* the last statement is "v = hp.<primitive>(...)" without a name
DirectUnnamed ==
    /\ last.op = "statement"
    /\ NodeType(LastWritten) = "Assign"
    /\ IsPrimitiveCall(LastWritten[3])
    /\ ~ExplicitlyNamed(LastWritten[3])

\* C19 as stated: a primitive call without a name that is the direct
\* right-hand side of "v = hp.<primitive>(...)" runs named exactly v, select
\* and the scalar primitives alike: the statement has the outcome the call
\* has under the name v, with the selection or the override keyed v applied.
C19_DirectName ==
    DirectUnnamed =>
        LET v == GetTargetName(LastWritten[2]) IN
        /\ LastRun[3] = Named(LastWritten[3], v)
        /\ last.out = Eval(Named(LastWritten[3], v), Top.hp).out

\* the last statement is "v = {...}" or "v = f(...)" that holds primitive
\* calls without a name under dict keys or keyword names
NestedUnnamed ==
    /\ last.op = "statement"
    /\ NodeType(LastWritten) = "Assign"
    /\ ~IsPrimitiveCall(LastWritten[3])
    /\ NamedByPath(LastWritten[3], <<GetTargetName(LastWritten[2])>>) # LastWritten[3]

\* C20 as stated: a primitive call without a name nested in the dict literal
\* or in the keyword arguments of the right-hand side of "v = ..." runs named
\* by the dotted path from v through the dict keys and keyword names: the
\* statement has the outcome it has when every such call is given that name,
\* so that a selection or override keyed by a path decides that entry only.
C20_NestedName ==
    NestedUnnamed =>
        LET v == GetTargetName(LastWritten[2]) IN
        /\ LastRun[3] = NamedByPath(LastWritten[3], <<v>>)
        /\ last.out = Eval(NamedByPath(LastWritten[3], <<v>>), Top.hp).out

-----------------------------------------------------------------------------
(* Properties of the analysis: what HypsterCall leaves in selects and in   *)
(* modified_source                                                         *)

Analyzed == status # "idle"

\* the k-th hp.select call of the source, as written and as it is run
CallWritten(k) == NodeAt(source, SelectCalls(source)[k])
CallRun(k) == NodeAt(modified_source, SelectCalls(source)[k])

\* the name the analyzer inferred for the k-th call, before the validity rule
Inferred(k) == InferName(source, SelectCalls(source)[k])

\* the k-th call was given a name keyword by the rewriter
Injected(k) == Len(CallRun(k)[4]) > Len(CallWritten(k)[4])

\* the synthetic label argN of a positional argument
IsPositionalMarker(part) ==
    /\ StartsWith(part, kw_arg)
    /\ Len(part) > Len(kw_arg)
    /\ \A j \in (Len(kw_arg) + 1)..Len(part) : part[j] \in Range(Digits)

\* at most four segments, none of them a positional marker
AcceptedName(name) ==
    /\ Len(Split(name)) <= MaxParts
    /\ \A j \in DOMAIN Split(name) : ~IsPositionalMarker(Split(name)[j])

\* C21 as stated: for a call without an explicit name, the inferred name
\* becomes the implicit name if and only if it has at most four segments and
\* no segment is a positional marker argN (a dict key or keyword name that
\* only begins with 'arg' does not reject it), and a rejected name is not
\* injected.
C21_ValidityRule ==
    Analyzed =>
        \A k \in DOMAIN selects :
            (~Truthy(selects[k].explicit_name) /\ Truthy(Inferred(k))) =>
                /\ (selects[k].implicit_name = Inferred(k)) <=> AcceptedName(Inferred(k))
                /\ ~AcceptedName(Inferred(k)) => ~Injected(k)

\* a selection point with no explicit name and no accepted inferred name
Nameless(k) ==
    /\ selects[k].explicit_name = NoName
    /\ selects[k].implicit_name = NoName

\* C22 as stated: an invocation of a source that holds a selection point
\* with no explicit name and no accepted inferred name fails with the
\* ValueError "Name must be provided explicitly or automatically inferred":
\* it never returns a result mapping, and the selection point is never
\* resolved into the record.
C22_NameRequired ==
    (Analyzed /\ \E k \in DOMAIN selects : Nameless(k)) =>
        /\ status # "returned"
        /\ status = "failed" => result = Raise("ValueError", "Name must be provided", <<>>)
        /\ NoName \notin DOMAIN Top.hp.config_dict

\* the call passes a name of its own: GetHpSelectName finds one
HasExplicitName(node) == GetHpSelectName(node) # NoName

RECURSIVE Rewritten(_, _)
\* the source in which exactly the hp.select calls without an explicit name
\* and with an implicit name have the keyword name=<implicit name> added at
\* the end, and nothing else differs
Rewritten(node, pos) ==
    LET calls == SelectCalls(source)
        sub(j) == Rewritten(Children(node)[j], pos \o <<j>>)
    IN  CASE NodeType(node) = "Module" -> Module([j \in DOMAIN node[2] |-> sub(j)])
          [] NodeType(node) = "Assign" -> Assign(node[2], sub(2), node[4])
          [] NodeType(node) = "Expr" -> Expr(sub(1), node[3])
          [] NodeType(node) = "Dict" ->
                Dict(node[2], [j \in DOMAIN node[3] |-> sub(Len(node[2]) + j)])
          [] NodeType(node) = "IfExp" -> IfExp(sub(1), sub(2), sub(3))
          [] NodeType(node) = "Call" ->
                LET inner == CallNode(node[2],
                                      [j \in DOMAIN node[3] |-> sub(1 + j)],
                                      [j \in DOMAIN node[4] |->
                                         keyword(node[4][j][1], sub(1 + Len(node[3]) + j))],
                                      node[5])
                    k == CHOOSE kk \in DOMAIN calls : calls[kk] = pos
                IN  IF /\ IsHpSelect(node)
                       /\ ~HasExplicitName(node)
                       /\ selects[k].implicit_name # NoName
                    THEN Named(inner, selects[k].implicit_name)
                    ELSE inner
          [] OTHER -> node

\* C23 as stated: no Select entry has both an explicit and an implicit name,
\* and the modified source is the source with name=<implicit name> added to
\* exactly the call sites that have no explicit name and have an implicit
\* name; every other call site and every other argument is as written.
C23_InjectFrame ==
    Analyzed =>
        /\ \A k \in DOMAIN selects :
              ~(selects[k].explicit_name # NoName /\ selects[k].implicit_name # NoName)
        /\ modified_source = Rewritten(source, <<>>)

\* the calls of the source on the line of the k-th one that the visit meets
\* before it: parents before children, children from left to right
EarlierOnLine(k) ==
    {j \in 1..(k - 1) : CallWritten(j)[5] = CallWritten(k)[5]}

\* C25: the locator numbers the hp.select calls of one line 0, 1, 2, ... in
\* the order of its visit, and the rewriter gives every call site the name
\* the locator inferred for that same call site: a call is injected exactly
\* when its own entry has an implicit and no explicit name, and with that
\* entry's name.
C25_Occurrence ==
    Analyzed =>
        \A k \in DOMAIN selects :
            /\ selects[k].lineno = CallWritten(k)[5]
            /\ selects[k].select_index = Cardinality(EarlierOnLine(k))
            /\ Injected(k) <=> (/\ ~Truthy(selects[k].explicit_name)
                                /\ Truthy(selects[k].implicit_name))
            /\ Injected(k) =>
                  /\ selects[k].implicit_name = Inferred(k)
                  /\ CallRun(k)[4][Len(CallRun(k)[4])]
                        = keyword(kw_name, Constant(Inferred(k)))

\* two calls on one line, one inside the other, injected with two names
C25_Witness ==
    /\ Analyzed
    /\ \E j, k \in DOMAIN selects :
          /\ j < k
          /\ selects[j].lineno = selects[k].lineno
          /\ Len(SelectCalls(source)[k]) > Len(SelectCalls(source)[j])
          /\ SubSeq(SelectCalls(source)[k], 1, Len(SelectCalls(source)[j]))
                = SelectCalls(source)[j]
          /\ Injected(j) /\ Injected(k)
          /\ selects[j].implicit_name # selects[k].implicit_name

\* the k-th call is in an assignment, is not its direct right-hand side, and
\* the search of the assignment's own value does not find it
NotFoundInAssignment(k) ==
    LET pos == SelectCalls(source)[k]
        stmt == source[2][pos[1]]
    IN  /\ NodeType(stmt) = "Assign"
        /\ ~(NodeType(stmt[3]) = "Call" /\ IsHpSelect(stmt[3]))
        /\ ~Truthy(FindNodeInAssignment(stmt[3], <<pos[1], 2>>, pos,
                                        <<GetTargetName(stmt[2])>>))

\* C26 as stated: a call without an explicit name that lies in an assignment
\* and is not found by the search of that assignment is named by the search
\* of the whole variable graph (callee hp.select, equal first argument,
\* kwargs segments dropped), and stays unnamed only if that search finds
\* nothing too.
C26_GraphFallback ==
    Analyzed =>
        \A k \in DOMAIN selects :
            (NotFoundInAssignment(k) /\ ~Truthy(selects[k].explicit_name)) =>
                /\ Inferred(k) = InferFromGraph(source, CallWritten(k))
                /\ selects[k].implicit_name = NoName
                      => ~Truthy(InferFromGraph(source, CallWritten(k)))

\* C27 as stated: no two call sites of one source are injected with the same
\* inferred name.
C27_DistinctNames ==
    Analyzed =>
        \A j, k \in DOMAIN selects :
            (j # k /\ Injected(j) /\ Injected(k)) =>
                selects[j].implicit_name # selects[k].implicit_name

-----------------------------------------------------------------------------
(* Properties of the values select returns *)

\* C28: a select that returns for a name without an override returns one of
\* the values of the canonical options table, whether a selection or the
\* default decided it.
C28_WithinOptions ==
    (LastSelect /\ Returned(last.out) /\ ~HasOverride) =>
        /\ WellFormed
        /\ last.out[2] \in DictValues(Table)

\* a selection picked the value stored under a key of an options dict
C28_Witness ==
    /\ LastSelect /\ Returned(last.out) /\ ~HasOverride
    /\ HasSelection
    /\ TypeOf(last.options) = "dict"
    /\ last.out[2] # Selection
    /\ last.out[2] \in DictValues(Table)

-----------------------------------------------------------------------------
(* src/hypster.py, Objective.__call__: the loop that trains the folds step *)
(* by step and stops when the score no longer improves.  A score is an     *)
(* integer number of units of tol; best_score starts as nan.               *)

MaxIter == 4

nan == <<"nan">>
Score(n) == <<"float", n>>
IsNan(x) == x[1] = "nan"

\* the values agg_func(scores) takes
Scores == 0..2

\* no configuration is invoked
NoInvocation ==
    /\ stack = <<>> /\ last = NoCall /\ status = "idle" /\ result = PyNone
    /\ nstmts = 0 /\ NoSource

\* hypster.py 45-71 and 109, 139
InitObjective ==
    /\ objective \in [tol : {1}, max_iter : 1..MaxIter, max_fails : 1..3,
                      greater_is_better : BOOLEAN]
    /\ can_lower_complexity \in BOOLEAN
    /\ step = 0
    /\ best_score = nan
    /\ fail_count = 0
    /\ improved = <<>>
    /\ loop = "iterating"
    /\ NoInvocation /\ NoThreads /\ NoFit

\* hypster.py 188-192
Condition(self, best, intermediate_value) ==
    IF IsNan(best) THEN TRUE
    ELSE IF self.greater_is_better
    THEN intermediate_value - best[2] >= self.tol
    ELSE best[2] - intermediate_value >= self.tol

\* hypster.py 141-213: one iteration of "for step in range(self.max_iter)"
Iterate ==
    /\ loop = "iterating"
    /\ step < objective.max_iter
    /\ step' = step + 1
    /\ \E intermediate_value \in Scores, should_prune \in BOOLEAN :
          IF should_prune
          THEN \* 184-185: raise optuna.structs.TrialPruned()
               /\ loop' = "pruned"
               /\ UNCHANGED <<best_score, fail_count, improved>>
          ELSE LET reset == 0      \* 187: fail_count = 0
                   condition == Condition(objective, best_score, intermediate_value)
               IN  /\ improved' = Append(improved, condition)
                   /\ IF condition
                      THEN \* 195-196
                           /\ best_score' = Score(intermediate_value)
                           /\ fail_count' = 0
                           /\ UNCHANGED loop
                      ELSE \* 206-208
                           /\ fail_count' = reset + 1
                           /\ UNCHANGED best_score
                           /\ loop' = IF \/ can_lower_complexity = FALSE
                                         \/ fail_count' >= objective.max_fails
                                      THEN "broke" ELSE "iterating"
    /\ UNCHANGED <<objective, can_lower_complexity, hypster_vars, threads_vars, fit_vars>>

\* hypster.py 141: range(self.max_iter) is exhausted
Exhaust ==
    /\ loop = "iterating"
    /\ step = objective.max_iter
    /\ loop' = "exhausted"
    /\ UNCHANGED <<objective, can_lower_complexity, step, best_score, fail_count,
                   improved, hypster_vars, threads_vars, fit_vars>>

NextObjective == Iterate \/ Exhaust

SpecObjective == InitObjective /\ [][NextObjective]_vars

RECURSIVE TrailingFails(_)
\* the number of iterations at the end of the run that did not improve
\* best_score by tol
TrailingFails(conditions) ==
    IF conditions = <<>> \/ conditions[Len(conditions)] THEN 0
    ELSE 1 + TrailingFails(SubSeq(conditions, 1, Len(conditions) - 1))

\* C29 as stated: with adjustable model complexity the loop goes on while
\* fewer than max_fails iterations in a row have failed to improve and stops
\* at the max_fails-th, an improving iteration sets the count of failures to
\* zero, without adjustable complexity the loop stops at the first iteration
\* that does not improve, and no run has more than max_iter iterations.
C29_Patience ==
    loop \in {"iterating", "broke", "exhausted"} =>
        /\ step <= objective.max_iter
        /\ (improved # <<>> /\ improved[Len(improved)]) => fail_count = 0
        /\ can_lower_complexity =>
              /\ loop = "iterating" => TrailingFails(improved) < objective.max_fails
              /\ loop = "broke" => TrailingFails(improved) = objective.max_fails
        /\ ~can_lower_complexity =>
              /\ loop = "iterating" => TrailingFails(improved) = 0
              /\ loop = "broke" => TrailingFails(improved) = 1

-----------------------------------------------------------------------------
(* src/hypster.py, HyPSTERClassifier.fit and HyPSTERRegressor.fit: the     *)
(* estimators that cannot handle the input are filtered out, and every     *)
(* remaining one is optimised for its number of trials.  An estimator is   *)
(* its place in self.estimators and its tags; "supports" is the tag        *)
(* "supports multiclass" of a classifier, "supports regression" of a       *)
(* regressor.                                                              *)

MaxEstimators == 3

Tags == [handles_sparse : BOOLEAN, supports : BOOLEAN]

\* self.estimators: every list of one to MaxEstimators estimators
EstimatorLists ==
    UNION {{[j \in 1..n |-> [id |-> j, tags |-> t[j]]] : t \in [1..n -> Tags]}
              : n \in 1..MaxEstimators}

\* the caller's n_trials_per_estimator: an int, or a list that gives the
\* j-th estimator 10 * j trials, one entry short, exact, or one entry long
TrialsFor(n) ==
    {PyInt(10)} \cup {PyList([j \in 1..m |-> 10 * j]) : m \in (n - 1)..(n + 1)}

IndexError(msg) == Raise("IndexError", msg, <<>>)

InitFit ==
    /\ fit \in [kind : {"classifier", "regressor"}, sparse : BOOLEAN,
                pc : {"called"}, error : {PyNone}]
    /\ estimators \in EstimatorLists
    /\ n_trials_per_estimator \in TrialsFor(Len(estimators))
    /\ given = n_trials_per_estimator
    /\ valid_estimators = <<>>
    /\ index = 0
    /\ optimized = <<>>
    /\ NoInvocation /\ NoThreads /\ NoObjective

IsList(v) == TypeOf(v) = "list"

\* hypster.py 319-321 and 450-452
CheckSizes ==
    /\ fit.pc = "called"
    /\ fit' = [fit EXCEPT !.pc =
                  IF /\ IsList(n_trials_per_estimator)
                     /\ Len(n_trials_per_estimator[2]) < Len(estimators)
                  THEN "returned" ELSE "filtering"]
    /\ UNCHANGED <<estimators, n_trials_per_estimator, given, valid_estimators,
                   index, optimized, hypster_vars, threads_vars, objective_vars>>

\* hypster.py 360-365 and 492-497: remove_estimator, or the error its
\* computation raises; class_counts = np.bincount(y) has one dimension, so
\* class_counts.shape[1] raises IndexError whenever it is evaluated
RemoveEstimator(kind, sparse, tags) ==
    IF kind = "classifier"
    THEN IF sparse /\ tags.handles_sparse = FALSE THEN Return(TRUE)
         ELSE IF tags.supports = FALSE THEN IndexError("tuple index out of range")
         ELSE Return(FALSE)
    ELSE Return((sparse /\ tags.handles_sparse = FALSE) \/ tags.supports = FALSE)

\* del lst[i], with i counted from 0
Del(lst, i) ==
    IF i >= Len(lst) THEN IndexError("list assignment index out of range")
    ELSE Return([j \in 1..(Len(lst) - 1) |-> IF j <= i THEN lst[j] ELSE lst[j + 1]])

\* hypster.py 355-370 and 486-503: one iteration of the filter loop
Filter ==
    /\ fit.pc = "filtering"
    /\ index < Len(estimators)
    /\ LET estimator == estimators[index + 1]
           remove_estimator == RemoveEstimator(fit.kind, fit.sparse, estimator.tags)
           deleted == Del(n_trials_per_estimator[2], index)
       IN  IF Raised(remove_estimator)
           THEN /\ fit' = [fit EXCEPT !.pc = "failed", !.error = remove_estimator]
                /\ UNCHANGED <<n_trials_per_estimator, valid_estimators>>
           ELSE IF remove_estimator[2]
           THEN IF ~IsList(n_trials_per_estimator)
                THEN UNCHANGED <<fit, n_trials_per_estimator, valid_estimators>>
                ELSE IF Raised(deleted)
                THEN /\ fit' = [fit EXCEPT !.pc = "failed", !.error = deleted]
                     /\ UNCHANGED <<n_trials_per_estimator, valid_estimators>>
                ELSE /\ n_trials_per_estimator' = PyList(deleted[2])
                     /\ UNCHANGED <<fit, valid_estimators>>
           ELSE /\ valid_estimators' = Append(valid_estimators, estimator)
                /\ UNCHANGED <<fit, n_trials_per_estimator>>
    /\ index' = index + 1
    /\ UNCHANGED <<estimators, given, optimized, hypster_vars, threads_vars,
                   objective_vars>>

\* hypster.py 372-377 and 505-510: the filter loop is over
FilterEnds ==
    /\ fit.pc = "filtering"
    /\ index = Len(estimators)
    /\ fit' = [fit EXCEPT !.pc =
                  IF Len(valid_estimators) = 0 THEN "returned" ELSE "optimizing"]
    /\ index' = 0
    /\ UNCHANGED <<estimators, n_trials_per_estimator, given, valid_estimators,
                   optimized, hypster_vars, threads_vars, objective_vars>>

\* n_trials_per_estimator[i], with i counted from 0
GetItem(lst, i) ==
    IF i >= Len(lst) THEN IndexError("list index out of range") ELSE Return(lst[i + 1])

\* hypster.py 377-416 and 510-549: one iteration of the optimisation loop
Optimize ==
    /\ fit.pc = "optimizing"
    /\ index < Len(valid_estimators)
    /\ LET estimator == valid_estimators[index + 1]
           n_trials == IF IsList(n_trials_per_estimator)
                       THEN GetItem(n_trials_per_estimator[2], index)
                       ELSE Return(n_trials_per_estimator[2])
       IN  IF Raised(n_trials)
           THEN /\ fit' = [fit EXCEPT !.pc = "failed", !.error = n_trials]
                /\ UNCHANGED optimized
           ELSE /\ optimized' = Append(optimized,
                                       [estimator |-> estimator, n_trials |-> n_trials[2]])
                /\ UNCHANGED fit
    /\ index' = index + 1
    /\ UNCHANGED <<estimators, n_trials_per_estimator, given, valid_estimators,
                   hypster_vars, threads_vars, objective_vars>>

\* hypster.py 418-432 and 551-565: every valid estimator was optimised
OptimizeEnds ==
    /\ fit.pc = "optimizing"
    /\ index = Len(valid_estimators)
    /\ fit' = [fit EXCEPT !.pc = "fitted"]
    /\ UNCHANGED <<estimators, n_trials_per_estimator, given, valid_estimators,
                   index, optimized, hypster_vars, threads_vars, objective_vars>>

NextFit == CheckSizes \/ Filter \/ FilterEnds \/ Optimize \/ OptimizeEnds

SpecFit == InitFit /\ [][NextFit]_vars

\* fit was called with a list that has one entry for every estimator
OneEntryPerEstimator ==
    /\ fit # <<>>
    /\ IsList(given)
    /\ Len(given[2]) = Len(estimators)

\* C30 as stated: when n_trials_per_estimator is a list with one entry per
\* estimator, fit raises no IndexError whichever estimators are filtered
\* out, and every valid estimator is optimised with the number of trials the
\* caller gave for that estimator.
C30_TrialsAligned ==
    OneEntryPerEstimator =>
        /\ fit.pc = "failed" => fit.error[2] # "IndexError"
        /\ \A j \in DOMAIN optimized :
              optimized[j].n_trials = given[2][optimized[j].estimator.id]

-----------------------------------------------------------------------------
(* Several invocations of Hypster.__call__ at once, of one Hypster object  *)
(* or of two.  Dicts and lists are objects of a heap, known by their       *)
(* identity: the arguments a caller passes, and the default arguments of   *)
(* __call__, are objects that several invocations can hold at once, while  *)
(* the config_dict of HP.__init__ and the namespace of __call__ are made   *)
(* anew by every invocation.  An invocation runs a statement of its body   *)
(* in one step; the steps of the invocations interleave in any order.      *)

\* the objects that exist before any invocation: the default arguments
\* final_vars=[], selections={}, overrides={} of core.py 127, and a list and
\* two dicts of the caller
default_final_vars == 1
default_selections == 2
default_overrides == 3
caller_final_vars == 4
caller_selections == 5
caller_overrides == 6
NumArguments == 6

ThreadPrograms == {SelectsOnly, ExplicitNaming}
ThreadSelections == (<<"v">> :> b) @@ (<<"c", ".", "m">> :> b)
ThreadOverrides == (<<"x">> :> c)
\* the selections dicts of the caller: the last one selects no option of v
ThreadSelectionDicts == SubDicts(ThreadSelections) \cup {(<<"v">> :> c)}

\* an invocation that has not been called yet
Idle(program) ==
    [source |-> program, pc |-> "idle", final_vars |-> 0, selections |-> 0,
     overrides |-> 0, config_dict |-> 0, namespace |-> 0, passed |-> <<>>,
     modified_source |-> <<>>, nstmts |-> 0, result |-> PyNone, overlapped |-> FALSE]

InitThreads ==
    /\ \E selections \in ThreadSelectionDicts,
          overrides \in SubDicts(ThreadOverrides) :
          heap = <<<<>>, EmptyDict, EmptyDict, <<<<"v">>>>, selections, overrides>>
    /\ \E first \in ThreadPrograms, second \in ThreadPrograms :
          threads = <<Idle(first), Idle(second)>>
    /\ NoInvocation /\ NoObjective /\ NoFit

\* core.py 134-135: the source of each configuration after the analysis and
\* the injection of the names, which depend on the source alone
ModifiedSource ==
    [program \in ThreadPrograms |-> InjectNames(program, AnalyzeHpSelect(program))]

\* h[id] = obj, for an object that exists or for the next new one
Store(h, id, obj) == IF id > Len(h) THEN Append(h, obj) ELSE [h EXCEPT ![id] = obj]

\* core.py 17: self.config_dict = {}, a new dict
NewConfigDict(h) == Len(h) + 1

NewNamespace_Shared(h) ==
    IF Len(h) > NumArguments + 2 THEN NumArguments + 2 ELSE Len(h) + 1

\* core.py 141: namespace = {'hp': hp}, a new dict
NewNamespace(h) ==
    Len(h) + 1

\* the HP object of an invocation, with the dicts it refers to
ContextOf(h, thread) ==
    [final_vars |-> h[thread.final_vars],
     selections |-> h[thread.selections],
     overrides |-> h[thread.overrides],
     config_dict |-> h[thread.config_dict]]

\* core.py 144: what the execution of one statement of the body leaves: the
\* context, the namespace and the outcome
Statement(stmt, hp, namespace) ==
    LET assigns == NodeType(stmt) = "Assign"
        r == Eval(IF assigns THEN stmt[3] ELSE stmt[2], hp)
    IN  [hp |-> r.hp,
         out |-> r.out,
         namespace |-> IF assigns /\ Returned(r.out)
                       THEN Put(namespace, GetTargetName(stmt[2]), r.out[2])
                       ELSE namespace]

\* another invocation is between its call and its end
Overlaps(t) == \E u \in DOMAIN threads : u # t /\ threads[u].pc = "running"

\* core.py 127-144: invocation t is called; it receives the caller's objects
\* or the default ones, makes its context and its namespace, analyzes the
\* source and injects the names
ThreadCall(t) ==
    /\ threads[t].pc = "idle"
    /\ \E final_vars \in {default_final_vars, caller_final_vars},
          selections \in {default_selections, caller_selections},
          overrides \in {default_overrides, caller_overrides} :
          LET config_dict == NewConfigDict(heap)
              made == Store(heap, config_dict, EmptyDict)
              namespace == NewNamespace(made)
              modified == ModifiedSource[threads[t].source]
          IN  /\ heap' = Store(made, namespace, [k \in {HpVar} |-> HpObject])
              /\ threads' = [threads EXCEPT ![t] =
                    [@ EXCEPT !.final_vars = final_vars,
                              !.selections = selections,
                              !.overrides = overrides,
                              !.config_dict = config_dict,
                              !.namespace = namespace,
                              !.passed = <<heap[final_vars], heap[selections],
                                           heap[overrides]>>,
                              !.modified_source = modified,
                              !.pc = IF Returned(Compile(modified))
                                     THEN "running" ELSE "failed",
                              !.result = IF Returned(Compile(modified))
                                         THEN PyNone ELSE Reraise(Compile(modified)),
                              !.overlapped = Overlaps(t)]]
    /\ UNCHANGED <<hypster_vars, objective_vars, fit_vars>>

\* core.py 144: invocation t runs the next statement of its body
ThreadExec(t) ==
    /\ threads[t].pc = "running"
    /\ threads[t].nstmts < Len(threads[t].modified_source[2])
    /\ LET thread == threads[t]
           r == Statement(thread.modified_source[2][thread.nstmts + 1],
                          ContextOf(heap, thread), heap[thread.namespace])
       IN  /\ heap' = [heap EXCEPT ![thread.config_dict] = r.hp.config_dict,
                                   ![thread.namespace] = r.namespace]
           /\ threads' = [threads EXCEPT ![t] =
                 [@ EXCEPT !.nstmts = @ + 1,
                           !.pc = IF Returned(r.out) THEN "running" ELSE "failed",
                           !.result = IF Returned(r.out) THEN PyNone ELSE Reraise(r.out),
                           !.overlapped = @ \/ Overlaps(t)]]
    /\ UNCHANGED <<hypster_vars, objective_vars, fit_vars>>

\* core.py 146-154: the body of invocation t has run to its end
ThreadReturn(t) ==
    /\ threads[t].pc = "running"
    /\ threads[t].nstmts = Len(threads[t].modified_source[2])
    /\ threads' = [threads EXCEPT ![t] =
          [@ EXCEPT !.pc = "returned",
                    !.result = Return(FinalResult(heap[threads[t].namespace],
                                                  heap[threads[t].final_vars])),
                    !.overlapped = @ \/ Overlaps(t)]]
    /\ UNCHANGED <<heap, hypster_vars, objective_vars, fit_vars>>

NextThreads ==
    \/ \E t \in DOMAIN threads : ThreadCall(t)
    \/ \E t \in DOMAIN threads : ThreadExec(t)
    \/ \E t \in DOMAIN threads : ThreadReturn(t)

SpecThreads == InitThreads /\ [][NextThreads]_vars

RECURSIVE RunBody(_, _, _, _)
\* the outcome of a body run from its n-th statement on, with nothing else
\* running
RunBody(body, n, hp, namespace) ==
    IF n > Len(body)
    THEN Return(FinalResult(namespace, hp.final_vars))
    ELSE LET r == Statement(body[n], hp, namespace) IN
         IF Raised(r.out) THEN r.out
         ELSE RunBody(body, n + 1, r.hp, r.namespace)

\* the outcome of one invocation that runs alone
RunAlone(program, final_vars, selections, overrides) ==
    LET modified == ModifiedSource[program] IN
    IF Raised(Compile(modified)) THEN Compile(modified)
    ELSE RunBody(modified[2], 1, HP(final_vars, selections, overrides),
                 [k \in {HpVar} |-> HpObject])

\* the outcomes of the solitary runs, by configuration and arguments
Alone ==
    [program \in ThreadPrograms, final_vars \in {<<>>, <<<<"v">>>>},
     selections \in ThreadSelectionDicts,
     overrides \in SubDicts(ThreadOverrides) |->
        RunAlone(program, final_vars, selections, overrides)]

Ended(t) == threads[t].pc \in {"returned", "failed"}

\* C24: invocations of the same or of different configurations, one after
\* another or interleaved, each end with the outcome they have when run
\* alone on the arguments they were passed, and the final_vars, selections
\* and overrides objects an invocation was passed, shared or not, are at
\* every moment as they were when it was called.
C24_Independent ==
    \A t \in DOMAIN threads :
        /\ Ended(t) =>
              threads[t].result = Alone[threads[t].source, threads[t].passed[1],
                                        threads[t].passed[2], threads[t].passed[3]]
        /\ threads[t].pc # "idle" =>
              threads[t].passed = <<heap[threads[t].final_vars],
                                    heap[threads[t].selections],
                                    heap[threads[t].overrides]>>

\* two invocations of different configurations that held the same selections
\* and overrides objects, ran interleaved, and returned different mappings
C24_Witness ==
    /\ threads # <<>>
    /\ threads[1].pc = "returned" /\ threads[2].pc = "returned"
    /\ threads[1].overlapped /\ threads[2].overlapped
    /\ threads[1].source # threads[2].source
    /\ threads[1].selections = threads[2].selections
    /\ threads[1].overrides = threads[2].overrides
    /\ heap[threads[1].selections] # EmptyDict
    /\ threads[1].result # threads[2].result

=============================================================================
